---- MODULE Spec2Model ----
(***************************************************************************)
(* Desired-state computation and artifact reconciliation of UMTK           *)
(* (src/umtk): the finders that classify tracker items, the title          *)
(* normalisation used to match artifacts, and the cleanup passes.          *)
(*                                                                         *)
(* Text is modelled as a sequence of characters (one-character strings);   *)
(* the two edition tags "{edition-Coming Soon}" and "{edition-Trending}"   *)
(* are single elements of such a sequence: they hold no character that     *)
(* sanitize_filename or a regular expression of the code treats specially  *)
(* other than as a whole.  Times are hours on the UTC clock.               *)
(***************************************************************************)
EXTENDS Integers, Sequences, FiniteSets, TLC

VARIABLES
    phase,      \* which part of the program the state belongs to
    title_a,    \* normalize_title: first title
    title_b,    \* normalize_title: second title
    key_a,      \* normalize_title(title_a), once computed
    key_b,      \* normalize_title(title_b), once computed
    now,        \* datetime.now(timezone.utc), in hours
    config,     \* the configuration main() reads
    all_series, \* the series catalog of the TV tracker, episodes included
    all_movies, \* the movie catalog of the movie tracker
    mdblist_tv_items,       \* what the trending source lists for shows
    mdblist_movies_items,   \* what the trending source lists for movies
    lists,      \* the category lists of the latest run
    tv_disk,    \* show folder -> its "Season 00": files and .trending marker
    movie_disk, \* the edition folders that exist, each holding its video
    created,    \* the artifacts the latest run created
    evicted,    \* the artifacts the latest run removed, with the reason
    origin,     \* artifact on disk -> the list it was created for
    settled,    \* a run has completed and nothing has changed since
    sonarr_failures,        \* which requests to the TV tracker fail
    unwritable,             \* the folders os.access(..., os.W_OK) denies
    tv_processing_failed,   \* tv_processing_failed of the latest run
    permission_denied,      \* the folders the latest run could not remove
    checked_count,          \* checked_count of the latest cleanup_tv_content
    removed_count           \* removed_count of the latest cleanup_tv_content

vars == <<phase, title_a, title_b, key_a, key_b, now, config, all_series,
          all_movies, mdblist_tv_items, mdblist_movies_items, lists,
          tv_disk, movie_disk, created, evicted, origin, settled,
          sonarr_failures, unwritable, tv_processing_failed, permission_denied,
          checked_count, removed_count>>

\* The variables of the title comparison.
norm_vars == <<title_a, title_b, key_a, key_b>>

\* The inputs of a run.
input_vars == <<now, config, all_series, all_movies, mdblist_tv_items,
                mdblist_movies_items, sonarr_failures, unwritable>>

\* The artifact store and what the latest run did to it.
store_vars == <<tv_disk, movie_disk, created, evicted, origin, settled,
                tv_processing_failed, permission_denied, checked_count,
                removed_count>>

None == "None"

(***************************************************************************)
(* Characters                                                              *)
(***************************************************************************)
Digits == {"0", "1", "2", "3", "4", "5", "6", "7", "8", "9"}

LowerLetters == {"a", "b"}

UpperLetters == {"A", "B"}

\* str.lower() on one character.
LowerChar(c) ==
    CASE c = "A" -> "a"
      [] c = "B" -> "b"
      [] OTHER -> c

\* \s of the regular expressions, and the separators of str.split().
IsSpace(c) == c = " "

\* \w of the regular expressions: letters, digits and the underscore.
IsWordChar(c) == c \in LowerLetters \cup UpperLetters \cup Digits \cup {"_"}

\* str.isalnum() on one character.
IsAlnum(c) == c \in LowerLetters \cup UpperLetters \cup Digits

\* \d{4}
YearDigits == 4

(***************************************************************************)
(* Text helpers                                                            *)
(***************************************************************************)
\* The text from position i to the end.
From(s, i) == SubSeq(s, i, Len(s))

RECURSIVE SkipSpace(_, _)
\* The first position >= i of s that holds no whitespace (Len(s)+1 if none):
\* where a greedy \s* starting at i stops.
SkipSpace(s, i) ==
    IF i <= Len(s) /\ IsSpace(s[i]) THEN SkipSpace(s, i + 1) ELSE i

\* Whether \(\d{4}\) matches s at position i.
YearAt(s, i) ==
    /\ i + YearDigits + 1 <= Len(s)
    /\ s[i] = "("
    /\ \A k \in 1..YearDigits : s[i + k] \in Digits
    /\ s[i + YearDigits + 1] = ")"

RECURSIVE StripYears(_)
\* re.sub(r'\s*\(\d{4}\)\s*', '', s): every leftmost match (the whitespace
\* before the year, the year, the whitespace after it) is deleted.
StripYears(s) ==
    IF s = <<>> THEN <<>>
    ELSE LET j == SkipSpace(s, 1)
         IN IF YearAt(s, j)
            THEN StripYears(From(s, SkipSpace(s, j + YearDigits + 2)))
            ELSE <<Head(s)>> \o StripYears(Tail(s))

\* re.sub(r'[^\w\s]', '', s)
StripPunctuation(s) == SelectSeq(s, LAMBDA c : IsWordChar(c) \/ IsSpace(c))

\* s.lower()
LowerText(s) == [i \in 1..Len(s) |-> LowerChar(s[i])]

RECURSIVE LStrip(_)
\* s.lstrip()
LStrip(s) == IF s # <<>> /\ IsSpace(Head(s)) THEN LStrip(Tail(s)) ELSE s

RECURSIVE RStrip(_)
\* s.rstrip()
RStrip(s) ==
    IF s # <<>> /\ IsSpace(s[Len(s)]) THEN RStrip(SubSeq(s, 1, Len(s) - 1)) ELSE s

\* s.strip()
Strip(s) == LStrip(RStrip(s))

RECURSIVE CollapseSpace(_)
\* ' '.join(s.split()) on a text that was stripped at both ends: every run
\* of whitespace becomes one blank.
CollapseSpace(s) ==
    IF s = <<>> THEN <<>>
    ELSE IF IsSpace(Head(s))
         THEN <<" ">> \o CollapseSpace(LStrip(s))
         ELSE <<Head(s)>> \o CollapseSpace(Tail(s))

\* ' '.join(s.split())
JoinSplit(s) == CollapseSpace(Strip(s))

(***************************************************************************)
(* cleanup.py normalize_title (the same text in both cleanup functions)    *)
(***************************************************************************)
normalize_title(title) == JoinSplit(LowerText(StripPunctuation(StripYears(title))))

(***************************************************************************)
(* utils.py                                                                *)
(***************************************************************************)
\* The replacement sanitize_filename makes for one character.  No
\* replacement text holds a character that is itself replaced, so applying
\* the replacements one after the other is applying this map to each
\* character.
SanitizeChar(c) ==
    CASE c = ":" -> <<" ", "-">>
      [] c = "/" -> <<"-">>
      [] c = "\\" -> <<"-">>
      [] c = "?" -> <<>>
      [] c = "*" -> <<>>
      [] c = "\"" -> <<"'">>
      [] c = "<" -> <<"(">>
      [] c = ">" -> <<")">>
      [] c = "|" -> <<"-">>
      [] OTHER -> <<c>>

RECURSIVE ReplaceInvalid(_)
ReplaceInvalid(s) ==
    IF s = <<>> THEN <<>> ELSE SanitizeChar(Head(s)) \o ReplaceInvalid(Tail(s))

RECURSIVE RStripDotSpace(_)
\* s.rstrip('. ')
RStripDotSpace(s) ==
    IF s # <<>> /\ s[Len(s)] \in {".", " "}
    THEN RStripDotSpace(SubSeq(s, 1, Len(s) - 1))
    ELSE s

sanitize_filename(filename) == RStripDotSpace(ReplaceInvalid(filename))

\* A stored UTC time moved to local time.
convert_utc_to_local(utc_date, utc_offset) == utc_date + utc_offset

\* timedelta(days=1) in the unit of the clock, hours.
HoursPerDay == 24

\* date().isoformat(): the calendar day a local time lies in.
DateOf(local_time) == local_time \div HoursPerDay

(***************************************************************************)
(* Names on disk                                                           *)
(***************************************************************************)
EditionComingSoon == "{edition-Coming Soon}"

EditionTrending == "{edition-Trending}"

\* f"{title} ({year})"
TitleYear(title, year) == title \o <<" ", "(">> \o year \o <<")">>

\* f"{title} ({year}) {{edition-...}}"
EditionName(title, year, edition) == TitleYear(title, year) \o <<" ", edition>>

\* "".join(c for c in title if c.isalnum() or c in (' ', '-', '_')).rstrip()
clean_title(title) ==
    RStrip(SelectSeq(title, LAMBDA c : IsAlnum(c) \/ c \in {" ", "-", "_"}))

RECURSIVE YearPrefixEnd(_, _)
\* re.match(r'^(.+?)\s*\((\d{4})\)', s): the length of the shortest group 1,
\* at least k, after which optional whitespace and a year follow; 0 when the
\* expression does not match.
YearPrefixEnd(s, k) ==
    IF k > Len(s) THEN 0
    ELSE IF YearAt(s, SkipSpace(s, k + 1)) THEN k
    ELSE YearPrefixEnd(s, k + 1)

\* The title the cleanup reads off a folder name: group 1 of the match,
\* stripped, or the whole name when there is no match.
TitleFromFolder(name) ==
    LET k == YearPrefixEnd(name, 1)
    IN IF k = 0 THEN name ELSE Strip(SubSeq(name, 1, k))

RECURSIVE RemoveEdition(_, _)
\* name.replace(" {edition-...}", "")
RemoveEdition(name, edition) ==
    IF name = <<>> THEN <<>>
    ELSE IF Len(name) >= 2 /\ name[1] = " " /\ name[2] = edition
         THEN RemoveEdition(From(name, 3), edition)
         ELSE <<Head(name)>> \o RemoveEdition(Tail(name), edition)

\* "{edition-...}" in name
HasEdition(name, edition) == \E i \in 1..Len(name) : name[i] = edition

(***************************************************************************)
(* finders.py                                                              *)
(***************************************************************************)
\* get_sonarr_episodes: the episode records of one series.
get_sonarr_episodes(series) == series.episodes

\* An optional value (a date, a path, a record that may be None) is a
\* sequence of no or one element; Absent is Python's None.
Absent == <<>>

Some(x) == <<x>>

Get(opt) == Head(opt)

\* The first of the hits, if any: what "for x in ...: if ...: break" finds.
FirstOf(hits) == IF hits = <<>> THEN Absent ELSE Some(Head(hits))

\* The item at the last of the positions, if any: what a dictionary filled in
\* catalog order holds under a key.
LastOf(catalog, hits) ==
    IF hits = {} THEN Absent
    ELSE Some(catalog[CHOOSE i \in hits : \A j \in hits : j <= i])

\* The first S01E01 record of an episode list, if any.
FirstEpisode(episodes) ==
    FirstOf(SelectSeq(episodes,
                      LAMBDA ep : ep.seasonNumber = 1 /\ ep.episodeNumber = 1))

\* any(tag in item_tags for tag in exclude_tags), under "if exclude_tags"
HasExcludedTag(item, exclude_tags) ==
    /\ exclude_tags # <<>>
    /\ \E i \in 1..Len(exclude_tags) : exclude_tags[i] \in item.tags

\* find_upcoming_shows without its "skip unmonitored shows" step.
UpcomingShowClassUnmonitoredToo(series, first_episode, future_days_upcoming_shows, utc_offset, exclude_tags, future_only_tv) ==
    LET cutoff_date == now + HoursPerDay * future_days_upcoming_shows
        now_local == now + utc_offset
    IN IF HasExcludedTag(series, exclude_tags) THEN "skip"
       ELSE IF first_episode = Absent THEN "skip"
       ELSE IF ~Get(first_episode).monitored THEN "skip"
       ELSE IF Get(first_episode).hasFile THEN "skip"
       ELSE IF Get(first_episode).airDateUtc = Absent THEN "skip"
       ELSE LET air_date == convert_utc_to_local(Get(Get(first_episode).airDateUtc),
                                                 utc_offset)
            IN IF air_date <= cutoff_date
               THEN IF air_date >= now_local THEN "future"
                    ELSE IF ~future_only_tv THEN "aired"
                    ELSE "skip"
               ELSE "skip"

\* The category find_upcoming_shows gives one series, first_episode being
\* the S01E01 it found among the episodes of the series: the loop body.
UpcomingShowClass(series, first_episode, future_days_upcoming_shows, utc_offset, exclude_tags, future_only_tv) ==
    LET cutoff_date == now + HoursPerDay * future_days_upcoming_shows
        now_local == now + utc_offset
    IN IF ~series.monitored THEN "skip"
       ELSE IF HasExcludedTag(series, exclude_tags) THEN "skip"
       ELSE IF first_episode = Absent THEN "skip"
       ELSE IF ~Get(first_episode).monitored THEN "skip"
       ELSE IF Get(first_episode).hasFile THEN "skip"
       ELSE IF Get(first_episode).airDateUtc = Absent THEN "skip"
       ELSE LET air_date == convert_utc_to_local(Get(Get(first_episode).airDateUtc),
                                                 utc_offset)
            IN IF air_date <= cutoff_date
               THEN IF air_date >= now_local THEN "future"
                    ELSE IF ~future_only_tv THEN "aired"
                    ELSE "skip"
               ELSE "skip"

\* show_dict of find_upcoming_shows and find_new_shows.
ShowDict(series, first_episode, utc_offset) ==
    [title |-> series.title,
     tvdbId |-> series.tvdbId,
     path |-> series.path,
     imdbId |-> series.imdbId,
     year |-> series.year,
     airDate |-> Some(DateOf(convert_utc_to_local(
                     Get(Get(first_episode).airDateUtc), utc_offset)))]

\* The show_dicts of the selected series, in their order.
ShowDictsOf(selected, utc_offset) ==
    [i \in 1..Len(selected) |->
        ShowDict(selected[i], FirstEpisode(get_sonarr_episodes(selected[i])), utc_offset)]

\* The show_dicts of the series of one category, in catalog order.
UpcomingShowsOf(series_list, class, future_days_upcoming_shows, utc_offset, exclude_tags, future_only_tv) ==
    ShowDictsOf(SelectSeq(series_list,
                          LAMBDA x : UpcomingShowClass(
                                         x, FirstEpisode(get_sonarr_episodes(x)),
                                         future_days_upcoming_shows, utc_offset,
                                         exclude_tags, future_only_tv) = class),
                utc_offset)

find_upcoming_shows(series_list, future_days_upcoming_shows, utc_offset, exclude_tags, future_only_tv) ==
    [future_shows |->
        UpcomingShowsOf(series_list, "future", future_days_upcoming_shows,
                        utc_offset, exclude_tags, future_only_tv),
     aired_shows |->
        UpcomingShowsOf(series_list, "aired", future_days_upcoming_shows,
                        utc_offset, exclude_tags, future_only_tv)]

\* Whether find_new_shows lists the series, s01e01 being the S01E01 it
\* found: the loop body.
IsNewShow(series, s01e01, recent_days_new_show, utc_offset) ==
    LET now_local == now + utc_offset
        cutoff_date == now_local - HoursPerDay * recent_days_new_show
    IN /\ series.monitored
       /\ s01e01 # Absent
       /\ Get(s01e01).hasFile
       /\ Get(s01e01).airDateUtc # Absent
       /\ LET air_date == convert_utc_to_local(Get(Get(s01e01).airDateUtc), utc_offset)
          IN cutoff_date <= air_date /\ air_date <= now_local

find_new_shows(series_list, recent_days_new_show, utc_offset) ==
    ShowDictsOf(SelectSeq(series_list,
                          LAMBDA x : IsNewShow(x, FirstEpisode(get_sonarr_episodes(x)),
                                               recent_days_new_show, utc_offset)),
                utc_offset)

\* dates_to_check of find_upcoming_movies.
DatesToCheck(movie) ==
    << [date |-> movie.digitalRelease, type |-> "Digital"],
       [date |-> movie.physicalRelease, type |-> "Physical"],
       [date |-> movie.inCinemas, type |-> "Cinema"] >>

\* valid_dates.sort(key=date) is stable: the first of the earliest, if any.
EarliestOf(valid_dates) ==
    IF valid_dates = <<>> THEN [date |-> Absent, type |-> None]
    ELSE valid_dates[CHOOSE i \in 1..Len(valid_dates) :
                        /\ \A j \in 1..Len(valid_dates) :
                              Get(valid_dates[i].date) <= Get(valid_dates[j].date)
                        /\ \A j \in 1..(i - 1) :
                              valid_dates[j].date # valid_dates[i].date]

\* A release date chosen in the order digital, physical, cinema rather than
\* by time.
ReleaseOfFirstPresent(movie, include_inCinemas) ==
    IF movie.digitalRelease # Absent
    THEN [date |-> movie.digitalRelease, type |-> "Digital"]
    ELSE IF movie.physicalRelease # Absent
         THEN [date |-> movie.physicalRelease, type |-> "Physical"]
         ELSE IF include_inCinemas /\ movie.inCinemas # Absent
              THEN [date |-> movie.inCinemas, type |-> "Cinema"]
              ELSE [date |-> Absent, type |-> None]

\* The release date find_upcoming_movies classifies a movie by, with its
\* type; date Absent when the movie has no usable date.
ReleaseOf(movie, include_inCinemas) ==
    IF include_inCinemas
    THEN EarliestOf(SelectSeq(DatesToCheck(movie), LAMBDA x : x.date # Absent))
    ELSE IF movie.digitalRelease # Absent
         THEN [date |-> movie.digitalRelease, type |-> "Digital"]
         ELSE IF movie.physicalRelease # Absent
              THEN [date |-> movie.physicalRelease, type |-> "Physical"]
              ELSE [date |-> Absent, type |-> None]

\* find_upcoming_movies without its past cutoff.
UpcomingMovieClassNoPastCutoff(movie, release, future_days_upcoming_movies, utc_offset, future_only, exclude_tags, past_days_upcoming_movies) ==
    LET cutoff_date == now + HoursPerDay * future_days_upcoming_movies
        now_local == now + utc_offset
    IN IF ~movie.monitored THEN "skip"
       ELSE IF movie.hasFile THEN "skip"
       ELSE IF HasExcludedTag(movie, exclude_tags) THEN "skip"
       ELSE IF release.date = Absent THEN "skip"
       ELSE LET release_date == convert_utc_to_local(Get(release.date), utc_offset)
            IN IF release_date >= now_local /\ release_date <= cutoff_date
               THEN "future"
               ELSE IF release_date < now_local /\ ~future_only THEN "released"
               ELSE "skip"

\* The category find_upcoming_movies gives one movie, release being the
\* release date it selected: the loop body.
UpcomingMovieClass(movie, release, future_days_upcoming_movies, utc_offset, future_only, exclude_tags, past_days_upcoming_movies) ==
    LET cutoff_date == now + HoursPerDay * future_days_upcoming_movies
        now_local == now + utc_offset
        has_past_cutoff == past_days_upcoming_movies > 0 /\ ~future_only
        past_cutoff_date == now_local - HoursPerDay * past_days_upcoming_movies
    IN IF ~movie.monitored THEN "skip"
       ELSE IF movie.hasFile THEN "skip"
       ELSE IF HasExcludedTag(movie, exclude_tags) THEN "skip"
       ELSE IF release.date = Absent THEN "skip"
       ELSE LET release_date == convert_utc_to_local(Get(release.date), utc_offset)
            IN IF has_past_cutoff /\ release_date < past_cutoff_date THEN "skip"
               ELSE IF release_date >= now_local /\ release_date <= cutoff_date
                    THEN "future"
               ELSE IF release_date < now_local /\ ~future_only THEN "released"
               ELSE "skip"

\* movie_dict of find_upcoming_movies.
MovieDict(movie, release, utc_offset) ==
    [title |-> movie.title,
     tmdbId |-> movie.tmdbId,
     imdbId |-> movie.imdbId,
     path |-> movie.path,
     folderName |-> movie.folderName,
     year |-> movie.year,
     releaseDate |-> Some(DateOf(convert_utc_to_local(Get(release.date), utc_offset))),
     releaseType |-> release.type]

\* The movie_dicts of the selected movies, in their order.
MovieDictsOf(selected, include_inCinemas, utc_offset) ==
    [i \in 1..Len(selected) |->
        MovieDict(selected[i], ReleaseOf(selected[i], include_inCinemas), utc_offset)]

\* The movie_dicts of the movies of one category, in catalog order.
UpcomingMoviesOf(movie_list, class, future_days_upcoming_movies, utc_offset, future_only, include_inCinemas, exclude_tags, past_days_upcoming_movies) ==
    MovieDictsOf(SelectSeq(movie_list,
                           LAMBDA x : UpcomingMovieClass(
                                          x, ReleaseOf(x, include_inCinemas),
                                          future_days_upcoming_movies, utc_offset,
                                          future_only, exclude_tags,
                                          past_days_upcoming_movies) = class),
                 include_inCinemas, utc_offset)

find_upcoming_movies(movie_list, future_days_upcoming_movies, utc_offset, future_only, include_inCinemas, exclude_tags, past_days_upcoming_movies) ==
    [future_movies |->
        UpcomingMoviesOf(movie_list, "future", future_days_upcoming_movies,
                         utc_offset, future_only, include_inCinemas, exclude_tags,
                         past_days_upcoming_movies),
     released_movies |->
        UpcomingMoviesOf(movie_list, "released", future_days_upcoming_movies,
                         utc_offset, future_only, include_inCinemas, exclude_tags,
                         past_days_upcoming_movies)]

\* Python truth of an identifier, which the model holds as the text str()
\* gives: None and '' are false.
Truthy(x) == x \notin {None, ""}

\* by_key[key] of a lookup dictionary filled in catalog order (a later item
\* with the same key replaces an earlier one), if any; keys[i] is the
\* identifier of the catalog's item i.  An item whose identifier is falsy is
\* not in the dictionary.
LookupLast(catalog, keys, key) ==
    LastOf(catalog, {i \in 1..Len(catalog) : Truthy(keys[i]) /\ keys[i] = key})

\* "if a_id and a_id in by_a: ... elif b_id and b_id in by_b: ... elif ...":
\* the first lookup that finds an item.
FirstFound(by_a, by_b, by_c) ==
    IF by_a # Absent THEN by_a ELSE IF by_b # Absent THEN by_b ELSE by_c

\* The lookup under an identifier of the trending entry, made only when the
\* entry has the identifier.
LookupIf(key, found) == IF Truthy(key) THEN found ELSE Absent

\* The tracker series process_trending_tv joins a trending entry to, if any.
TrendingSeriesOf(item, series_list) ==
    FirstFound(
        LookupIf(item.tvdb_id, LookupLast(series_list, [i \in DOMAIN series_list |-> series_list[i].tvdbId],
                                       item.tvdb_id)),
        LookupIf(item.tmdb_id, LookupLast(series_list, [i \in DOMAIN series_list |-> series_list[i].tmdbId],
                                       item.tmdb_id)),
        LookupIf(item.imdb_id, LookupLast(series_list, [i \in DOMAIN series_list |-> series_list[i].imdbId],
                                       item.imdb_id)))

\* process_trending_tv without its "has downloaded episodes" step.
TrendingTvClassDownloadedToo(item, found) ==
    LET sonarr_series == Get(found)
        episodes == get_sonarr_episodes(sonarr_series)
        has_monitored_episodes == \E i \in 1..Len(episodes) : episodes[i].monitored
    IN IF found # Absent
       THEN IF ~sonarr_series.monitored THEN "request"
            ELSE IF ~has_monitored_episodes THEN "request"
            ELSE "monitored"
       ELSE "request"

\* The list process_trending_tv puts a trending entry in, found being the
\* tracker series it joined the entry to: the loop body.
TrendingTvClass(item, found) ==
    LET sonarr_series == Get(found)
        episodes == get_sonarr_episodes(sonarr_series)
        has_downloaded_episodes == \E i \in 1..Len(episodes) : episodes[i].hasFile
        has_monitored_episodes == \E i \in 1..Len(episodes) : episodes[i].monitored
    IN IF found # Absent
       THEN IF has_downloaded_episodes THEN "skip"
            ELSE IF ~sonarr_series.monitored THEN "request"
            ELSE IF ~has_monitored_episodes THEN "request"
            ELSE "monitored"
       ELSE "request"

\* show_dict of process_trending_tv.
TrendingTvDict(item, found) ==
    IF found # Absent
    THEN [title |-> Get(found).title,
          tvdbId |-> Get(found).tvdbId,
          tmdbId |-> Get(found).tmdbId,
          path |-> Get(found).path,
          imdbId |-> Get(found).imdbId,
          year |-> Get(found).year,
          airDate |-> Absent,
          rank |-> item.rank]
    ELSE [title |-> item.title,
          tvdbId |-> IF Truthy(item.tvdb_id) THEN item.tvdb_id ELSE None,
          tmdbId |-> IF Truthy(item.tmdb_id) THEN item.tmdb_id ELSE None,
          path |-> Absent,
          imdbId |-> item.imdb_id,
          year |-> item.year,
          airDate |-> Absent,
          rank |-> item.rank]

\* The show_dicts of the selected trending entries, in their order.
TrendingTvDictsOf(selected, series_list) ==
    [i \in 1..Len(selected) |->
        TrendingTvDict(selected[i], TrendingSeriesOf(selected[i], series_list))]

\* The show_dicts of the trending entries of one list, in trending order.
TrendingShowsOf(mdblist_items, series_list, class) ==
    TrendingTvDictsOf(SelectSeq(mdblist_items,
                                LAMBDA x : TrendingTvClass(
                                               x, TrendingSeriesOf(x, series_list))
                                               = class),
                      series_list)

process_trending_tv(mdblist_items, series_list) ==
    [monitored_not_available |-> TrendingShowsOf(mdblist_items, series_list, "monitored"),
     not_found_or_unmonitored |-> TrendingShowsOf(mdblist_items, series_list, "request")]

\* The tracker movie process_trending_movies joins a trending entry to, if any.
TrendingMovieOf(item, movie_list) ==
    FirstFound(
        LookupIf(item.tmdb_id, LookupLast(movie_list, [i \in DOMAIN movie_list |-> movie_list[i].tmdbId],
                                       item.tmdb_id)),
        LookupIf(item.imdb_id, LookupLast(movie_list, [i \in DOMAIN movie_list |-> movie_list[i].imdbId],
                                       item.imdb_id)),
        Absent)

\* process_trending_movies leaving out the entries of unmonitored movies.
TrendingMovieClassUnmonitoredSkipped(item, found) ==
    IF found # Absent
    THEN IF Get(found).hasFile THEN "skip"
         ELSE IF Get(found).monitored THEN "monitored"
         ELSE "skip"
    ELSE "request"

\* The list process_trending_movies puts a trending entry in, found being
\* the tracker movie it joined the entry to: the loop body.
TrendingMovieClass(item, found) ==
    IF found # Absent
    THEN IF Get(found).hasFile THEN "skip"
         ELSE IF Get(found).monitored THEN "monitored"
         ELSE "request"
    ELSE "request"

\* movie_dict of process_trending_movies.
TrendingMovieDict(item, found) ==
    IF found # Absent
    THEN [title |-> Get(found).title,
          tmdbId |-> Get(found).tmdbId,
          imdbId |-> Get(found).imdbId,
          path |-> Get(found).path,
          folderName |-> Get(found).folderName,
          year |-> Get(found).year,
          releaseDate |-> Absent,
          releaseType |-> "Trending",
          rank |-> item.rank]
    ELSE [title |-> item.title,
          tmdbId |-> IF Truthy(item.tmdb_id) THEN item.tmdb_id ELSE None,
          imdbId |-> item.imdb_id,
          path |-> Absent,
          folderName |-> Absent,
          year |-> item.year,
          releaseDate |-> Absent,
          releaseType |-> "Trending",
          rank |-> item.rank]

\* The movie_dicts of the selected trending entries, in their order.
TrendingMovieDictsOf(selected, movie_list) ==
    [i \in 1..Len(selected) |->
        TrendingMovieDict(selected[i], TrendingMovieOf(selected[i], movie_list))]

\* The movie_dicts of the trending entries of one list, in trending order.
TrendingMoviesOf(mdblist_items, movie_list, class) ==
    TrendingMovieDictsOf(SelectSeq(mdblist_items,
                                   LAMBDA x : TrendingMovieClass(
                                                  x, TrendingMovieOf(x, movie_list))
                                                  = class),
                         movie_list)

process_trending_movies(mdblist_items, movie_list) ==
    [monitored_not_available |-> TrendingMoviesOf(mdblist_items, movie_list, "monitored"),
     not_found_or_unmonitored |-> TrendingMoviesOf(mdblist_items, movie_list, "request")]

(***************************************************************************)
(* main.py: the category lists of one run                                  *)
(***************************************************************************)
\* Method 2 of main(): placeholder files (method 1 fetches trailers from a
\* video site, method 0 disables the flow).
Placeholder == 2

Disabled == 0

\* The lists main() starts a run with.
EmptyLists ==
    [future_shows |-> <<>>, aired_shows |-> <<>>, new_shows |-> <<>>,
     trending_tv_monitored |-> <<>>, trending_tv_request_needed |-> <<>>,
     future_movies |-> <<>>, released_movies |-> <<>>,
     trending_movies_monitored |-> <<>>, trending_movies_request_needed |-> <<>>]

\* process_tv and process_movies of main().
process_tv(cfg) == cfg.tv > 0 \/ cfg.trending_tv > 0

process_movies(cfg) == cfg.movies > 0 \/ cfg.trending_movies > 0

\* A main() that cleans up whatever the option says.
CleanupAlways(cfg) == TRUE

\* "if cleanup:" of main(), before either cleanup.
CleanupEnabled(cfg) == cfg.cleanup

\* The field names main() gives the two lists of a trending join.
TrendingTvFields(trending) ==
    [trending_tv_monitored |-> trending.monitored_not_available,
     trending_tv_request_needed |-> trending.not_found_or_unmonitored]

TrendingMovieFields(trending) ==
    [trending_movies_monitored |-> trending.monitored_not_available,
     trending_movies_request_needed |-> trending.not_found_or_unmonitored]

\* The lists a join that finds nothing, or is not made, leaves.
NoTrending == [monitored_not_available |-> <<>>, not_found_or_unmonitored |-> <<>>]

\* The show lists main() computes: the finders run only under tv > 0, the
\* trending join only under trending_tv > 0 and a non-empty fetched list.
TvLists(cfg, series_list, mdblist_items) ==
    (IF process_tv(cfg) /\ cfg.tv > 0
     THEN find_upcoming_shows(series_list, cfg.future_days_upcoming_shows,
                              cfg.utc_offset, cfg.exclude_sonarr_tag_ids,
                              cfg.future_only_tv)
            @@ [new_shows |-> find_new_shows(series_list, cfg.recent_days_new_show,
                                             cfg.utc_offset)]
     ELSE [future_shows |-> <<>>, aired_shows |-> <<>>, new_shows |-> <<>>])
    @@ TrendingTvFields(
           IF process_tv(cfg) /\ cfg.trending_tv > 0 /\ mdblist_items # <<>>
           THEN process_trending_tv(mdblist_items, series_list)
           ELSE NoTrending)

\* The movie lists main() computes.
MovieLists(cfg, movie_list, mdblist_items) ==
    (IF process_movies(cfg) /\ cfg.movies > 0
     THEN find_upcoming_movies(movie_list, cfg.future_days_upcoming_movies,
                               cfg.utc_offset, cfg.future_only, cfg.include_inCinemas,
                               cfg.exclude_radarr_tag_ids,
                               cfg.past_days_upcoming_movies)
     ELSE [future_movies |-> <<>>, released_movies |-> <<>>])
    @@ TrendingMovieFields(
           IF process_movies(cfg) /\ cfg.trending_movies > 0 /\ mdblist_items # <<>>
           THEN process_trending_movies(mdblist_items, movie_list)
           ELSE NoTrending)

\* All nine lists of a run.
RunLists(cfg, series_list, tv_items, movie_list, movie_items) ==
    TvLists(cfg, series_list, tv_items) @@ MovieLists(cfg, movie_list, movie_items)

(***************************************************************************)
(* Paths and the show artifacts: main.py, media_handlers.py, cleanup.py    *)
(***************************************************************************)
\* A path is the sequence of its components.  Path(p).name, Path(p).parent
\* and Path(p) / name:
PathName(path) == path[Len(path)]

PathParent(path) == SubSeq(path, 1, Len(path) - 1)

Join(path, name) == Append(path, name)

\* The end of a show artifact's file name, the extension left out.
TrailerFile == ".S00E00.Trailer."

ComingSoonFile == ".S00E00.Coming.Soon."

\* A "Season 00" that does not exist.
NoSeason == [files |-> {}, trending |-> FALSE]

NoDirs == [d \in {} |-> NoSeason]

\* What "Season 00" of a show folder holds.
Season00(disk, dir) == IF dir \in DOMAIN disk THEN disk[dir] ELSE NoSeason

\* The show folder whose "Season 00" holds the show's artifact, if the
\* program can name one: under the root override the folder is named after
\* the tracker path, or after title and year when the show has no path.
ShowDirOf(show, umtk_root_tv) ==
    IF show.path # Absent
    THEN IF umtk_root_tv # Absent
         THEN Some(Join(Get(umtk_root_tv), PathName(show.path)))
         ELSE Some(show.path)
    ELSE IF umtk_root_tv # Absent
         THEN Some(Join(Get(umtk_root_tv),
                        sanitize_filename(IF show.year # <<>>
                                          THEN TitleYear(show.title, show.year)
                                          ELSE show.title)))
         ELSE Absent

\* season_00_path.glob(trailer_pattern) + season_00_path.glob(coming_soon_pattern)
existing_trailers(disk, dir, title) ==
    {f \in Season00(disk, dir).files :
        f \in {clean_title(title) \o <<TrailerFile>>,
               clean_title(title) \o <<ComingSoonFile>>}}

\* "Season 00" of the folder with one more file; the marker is written with
\* the file of a trending show.  A file that is there is left as it is.
PutShowFile(disk, dir, dest_file, is_trending) ==
    IF dest_file \in Season00(disk, dir).files THEN disk
    ELSE [d \in DOMAIN disk \cup {dir} |->
            IF d = dir
            THEN [files |-> Season00(disk, dir).files \cup {dest_file},
                  trending |-> Season00(disk, dir).trending \/ is_trending]
            ELSE disk[d]]

\* The artifact store after create_placeholder_tv(show), dir being the show
\* folder it selects.
create_placeholder_tv(disk, show, dir, is_trending) ==
    IF dir = Absent THEN disk
    ELSE PutShowFile(disk, Get(dir), clean_title(show.title) \o <<ComingSoonFile>>,
                     is_trending)

\* One pass of a "for show in ..." loop of main(): content that exists is
\* skipped, otherwise the placeholder method creates it.  A regular show is
\* looked up only when it has a path; a trending one whenever a folder can
\* be named.
ProcessShow(disk, show, dir, method, is_trending) ==
    IF /\ method = Placeholder
       /\ ~(/\ IF is_trending THEN dir # Absent ELSE show.path # Absent
            /\ existing_trailers(disk, Get(dir), show.title) # {})
    THEN create_placeholder_tv(disk, show, dir, is_trending)
    ELSE disk

RECURSIVE ProcessShows(_, _, _, _, _)
\* A "for show in ..." loop of main().
ProcessShows(disk, shows, umtk_root_tv, method, is_trending) ==
    IF shows = <<>> THEN disk
    ELSE ProcessShows(ProcessShow(disk, Head(shows),
                                  ShowDirOf(Head(shows), umtk_root_tv), method,
                                  is_trending),
                      Tail(shows), umtk_root_tv, method, is_trending)

\* The files of the store, each with its show folder.
ShowArtifacts(disk) ==
    UNION {{[dir |-> d, name |-> f] : f \in disk[d].files} : d \in DOMAIN disk}

\* series_by_folder_name.get(name) / series_by_path.get(path)
SeriesOfDir(series_list, dir, umtk_root_tv) ==
    LastOf(series_list,
           {i \in 1..Len(series_list) :
               /\ series_list[i].path # Absent
               /\ IF umtk_root_tv # Absent
                  THEN PathName(series_list[i].path) = PathName(dir)
                  ELSE series_list[i].path = dir})

\* dirs_to_scan of cleanup_tv_content, "Season 00" present.
TvDirsToScan(disk, series_list, umtk_root_tv) ==
    IF umtk_root_tv # Absent
    THEN {d \in DOMAIN disk : PathParent(d) = Get(umtk_root_tv)}
    ELSE {d \in DOMAIN disk :
            \E i \in 1..Len(series_list) : series_list[i].path = d}

\* The chain with the monitored flag asked before the downloaded file.
SeriesRemovalReasonMonitoredFirst(series, s01e01, exclude_tags, future_days_upcoming_shows, utc_offset, future_only_tv) ==
    LET cutoff_date == now + utc_offset + HoursPerDay * future_days_upcoming_shows
        now_local == now + utc_offset
    IN IF ~series.monitored THEN "show is no longer monitored"
       ELSE IF s01e01 # Absent /\ Get(s01e01).hasFile THEN "S01E01 now available"
       ELSE IF s01e01 # Absent /\ ~Get(s01e01).monitored
            THEN "S01E01 is no longer monitored"
       ELSE IF HasExcludedTag(series, exclude_tags) THEN "show has excluded tags"
       ELSE IF s01e01 # Absent /\ Get(s01e01).airDateUtc # Absent
            THEN LET air_date == convert_utc_to_local(Get(Get(s01e01).airDateUtc),
                                                      utc_offset)
                 IN IF air_date > cutoff_date
                    THEN "first episode is beyond the day range"
                    ELSE IF future_only_tv /\ air_date < now_local
                         THEN "aired show excluded due to future_only_tv=True"
                         ELSE ""
            ELSE "no valid S01E01 or air date found"

\* A cleanup whose re-check does not know future_only_tv.
SeriesRemovalReasonAiredKept(series, s01e01, exclude_tags, future_days_upcoming_shows, utc_offset, future_only_tv) ==
    LET cutoff_date == now + utc_offset + HoursPerDay * future_days_upcoming_shows
    IN IF s01e01 # Absent /\ Get(s01e01).hasFile THEN "S01E01 now available"
       ELSE IF ~series.monitored THEN "show is no longer monitored"
       ELSE IF s01e01 # Absent /\ ~Get(s01e01).monitored
            THEN "S01E01 is no longer monitored"
       ELSE IF HasExcludedTag(series, exclude_tags) THEN "show has excluded tags"
       ELSE IF s01e01 # Absent /\ Get(s01e01).airDateUtc # Absent
            THEN IF convert_utc_to_local(Get(Get(s01e01).airDateUtc), utc_offset)
                       > cutoff_date
                 THEN "first episode is beyond the day range"
                 ELSE ""
            ELSE "no valid S01E01 or air date found"

\* The reason cleanup_tv_content gives for removing the content of a series
\* that is not among the upcoming titles, s01e01 being the S01E01 it found
\* among the episodes of the series; "" when it keeps the content.
SeriesRemovalReason(series, s01e01, exclude_tags, future_days_upcoming_shows, utc_offset, future_only_tv) ==
    LET cutoff_date == now + utc_offset + HoursPerDay * future_days_upcoming_shows
        now_local == now + utc_offset
    IN IF s01e01 # Absent /\ Get(s01e01).hasFile THEN "S01E01 now available"
       ELSE IF ~series.monitored THEN "show is no longer monitored"
       ELSE IF s01e01 # Absent /\ ~Get(s01e01).monitored
            THEN "S01E01 is no longer monitored"
       ELSE IF HasExcludedTag(series, exclude_tags) THEN "show has excluded tags"
       ELSE IF s01e01 # Absent /\ Get(s01e01).airDateUtc # Absent
            THEN LET air_date == convert_utc_to_local(Get(Get(s01e01).airDateUtc),
                                                      utc_offset)
                 IN IF air_date > cutoff_date
                    THEN "first episode is beyond the day range"
                    ELSE IF future_only_tv /\ air_date < now_local
                         THEN "aired show excluded due to future_only_tv=True"
                         ELSE ""
            ELSE "no valid S01E01 or air date found"

\* {show['title'] for show in ...}
TitlesOf(shows) == {shows[i].title : i \in 1..Len(shows)}

\* current_upcoming_titles of cleanup_tv_content, which runs the finder again.
UpcomingTitles(upcoming) == TitlesOf(upcoming.future_shows \o upcoming.aired_shows)

\* The trending check of both cleanups: an exact title, else an equal key.
FoundInTrending(check_title, trending) ==
    \/ check_title \in TitlesOf(trending)
    \/ \E i \in 1..Len(trending) :
          normalize_title(check_title) = normalize_title(trending[i].title)

\* A cleanup that keeps the content of a folder without a series.
TvRemovalReasonKeepsUnresolved(is_trending, series, show_title_from_folder, current_upcoming_titles, current_trending_shows, cfg) ==
    IF is_trending
    THEN IF FoundInTrending(IF series # Absent THEN Get(series).title
                            ELSE show_title_from_folder,
                            current_trending_shows)
         THEN ""
         ELSE "no longer in trending list"
    ELSE IF series = Absent THEN ""
    ELSE IF Get(series).title \in current_upcoming_titles THEN ""
    ELSE SeriesRemovalReason(Get(series),
                             FirstEpisode(get_sonarr_episodes(Get(series))),
                             cfg.exclude_sonarr_tag_ids,
                             cfg.future_days_upcoming_shows, cfg.utc_offset,
                             cfg.future_only_tv)

\* should_remove and removal_reason of cleanup_tv_content for the files of
\* one show folder, series being the tracker series the folder resolves to;
\* "" when they are kept.
TvRemovalReason(is_trending, series, show_title_from_folder, current_upcoming_titles, current_trending_shows, cfg) ==
    IF is_trending
    THEN IF FoundInTrending(IF series # Absent THEN Get(series).title
                            ELSE show_title_from_folder,
                            current_trending_shows)
         THEN ""
         ELSE "no longer in trending list"
    ELSE IF series = Absent THEN "show no longer exists in Sonarr"
    ELSE IF Get(series).title \in current_upcoming_titles THEN ""
    ELSE SeriesRemovalReason(Get(series),
                             FirstEpisode(get_sonarr_episodes(Get(series))),
                             cfg.exclude_sonarr_tag_ids,
                             cfg.future_days_upcoming_shows, cfg.utc_offset,
                             cfg.future_only_tv)

\* The scan of cleanup_tv_content: the show folders whose content it removes,
\* each with the reason it prints.
TvRemovals(disk, series_list, cfg, trending_monitored, trending_request_needed) ==
    {r \in {[dir |-> d,
             reason |-> TvRemovalReason(
                            disk[d].trending,
                            SeriesOfDir(series_list, d, cfg.umtk_root_tv),
                            TitleFromFolder(PathName(d)),
                            UpcomingTitles(find_upcoming_shows(
                                series_list, cfg.future_days_upcoming_shows,
                                cfg.utc_offset, cfg.exclude_sonarr_tag_ids,
                                cfg.future_only_tv)),
                            trending_monitored \o trending_request_needed,
                            cfg)] :
                d \in {x \in TvDirsToScan(disk, series_list, cfg.umtk_root_tv) :
                          disk[x].files # {}}} :
        r.reason # ""}

\* The artifact store after the removals of cleanup_tv_content: under the
\* root override the whole show folder goes, otherwise the files and the
\* marker go and the empty "Season 00" stays.
cleanup_tv_content(disk, removals, umtk_root_tv) ==
    IF umtk_root_tv # Absent
    THEN [d \in DOMAIN disk \ {r.dir : r \in removals} |-> disk[d]]
    ELSE [d \in DOMAIN disk |->
            IF d \in {r.dir : r \in removals} THEN NoSeason ELSE disk[d]]

RECURSIVE SumOf(_)
\* The sum of the values of a function.
SumOf(f) ==
    IF DOMAIN f = {} THEN 0
    ELSE f[CHOOSE x \in DOMAIN f : TRUE]
            + SumOf([y \in DOMAIN f \ {CHOOSE x \in DOMAIN f : TRUE} |-> f[y]])

\* A scan that goes on with the next file of a folder it has removed.
FilesCheckedNoBreak(files, removed, umtk_root_tv) == Cardinality(files)

\* How often "for trailer_file in trailer_files" counts a file as checked
\* in one show folder: under the root override the loop is left with the
\* first file, which takes the folder with it; otherwise every file is
\* checked.
FilesChecked(files, removed, umtk_root_tv) ==
    IF umtk_root_tv # Absent /\ removed /\ files # {} THEN 1 ELSE Cardinality(files)

\* How often the loop counts a removal in one show folder it removes from:
\* once for the folder under the root override, otherwise once for each file.
FilesRemoved(files, umtk_root_tv) ==
    IF umtk_root_tv # Absent /\ files # {} THEN 1 ELSE Cardinality(files)

\* checked_count and removed_count of cleanup_tv_content when it returns,
\* scanned being the show folders it has handled.
TvCheckedCount(disk, scanned, removals, umtk_root_tv) ==
    SumOf([d \in scanned |->
              FilesChecked(disk[d].files, d \in {r.dir : r \in removals},
                           umtk_root_tv)])

TvRemovedCount(disk, removals, umtk_root_tv) ==
    SumOf([d \in {r.dir : r \in removals} |->
              FilesRemoved(disk[d].files, umtk_root_tv)])

(***************************************************************************)
(* The movie artifacts: main.py, media_handlers.py, cleanup.py             *)
(***************************************************************************)
\* The folder of that name in the parent, if there is a parent.
FolderIn(parent, folder_name) ==
    IF parent = Absent THEN Absent ELSE Some(Join(Get(parent), folder_name))

\* target_path of create_placeholder_movie, which is where main() and the
\* cleanup look for the folder too: the edition folder of a movie, if the
\* program can name one.
MovieFolderOf(movie, umtk_root_movies, edition) ==
    FolderIn(IF umtk_root_movies # Absent THEN umtk_root_movies
             ELSE IF movie.path # Absent THEN Some(PathParent(movie.path))
             ELSE Absent,
             sanitize_filename(EditionName(movie.title, movie.year, edition)))

\* The artifact store after create_placeholder_movie, target_path being the
\* edition folder it selects.
create_placeholder_movie(disk, target_path) ==
    IF target_path = Absent THEN disk ELSE disk \cup {Get(target_path)}

\* One pass of "for movie in all_movies_to_process" of main(): a movie with
\* a path whose Coming Soon folder holds a video is skipped.
ProcessMovie(disk, movie, coming_soon_path, method) ==
    IF /\ method = Placeholder
       /\ ~(movie.path # Absent /\ Get(coming_soon_path) \in disk)
    THEN create_placeholder_movie(disk, coming_soon_path)
    ELSE disk

RECURSIVE ProcessMovies(_, _, _, _)
\* "for movie in all_movies_to_process" of main().
ProcessMovies(disk, movies, umtk_root_movies, method) ==
    IF movies = <<>> THEN disk
    ELSE ProcessMovies(ProcessMovie(disk, Head(movies),
                                    MovieFolderOf(Head(movies), umtk_root_movies,
                                                  EditionComingSoon),
                                    method),
                       Tail(movies), umtk_root_movies, method)

\* The edition of a trending movie: Trending for a movie of the request
\* list, Coming Soon for any other.
TrendingEdition(movie, request_needed) ==
    IF \E i \in 1..Len(request_needed) : request_needed[i] = movie
    THEN EditionTrending
    ELSE EditionComingSoon

\* One pass of "for movie in all_trending_movies" of main().
ProcessTrendingMovie(disk, target_path, method) ==
    IF /\ method = Placeholder
       /\ ~(target_path # Absent /\ Get(target_path) \in disk)
    THEN create_placeholder_movie(disk, target_path)
    ELSE disk

RECURSIVE ProcessTrendingMovies(_, _, _, _, _)
\* "for movie in all_trending_movies" of main().
ProcessTrendingMovies(disk, movies, request_needed, umtk_root_movies, method) ==
    IF movies = <<>> THEN disk
    ELSE ProcessTrendingMovies(
             ProcessTrendingMovie(
                 disk,
                 MovieFolderOf(Head(movies), umtk_root_movies,
                               TrendingEdition(Head(movies), request_needed)),
                 method),
             Tail(movies), request_needed, umtk_root_movies, method)

\* radarr_movie_lookup_coming_soon.get(str(folder))
MovieOfFolder(movie_list, folder, umtk_root_movies) ==
    LastOf(movie_list,
           {i \in 1..Len(movie_list) :
               /\ movie_list[i].path # Absent
               /\ MovieFolderOf(movie_list[i], umtk_root_movies,
                                EditionComingSoon) = Some(folder)})

\* parent_dirs_to_scan of cleanup_movie_content.
MovieDirsToScan(movie_list, umtk_root_movies) ==
    IF umtk_root_movies # Absent THEN {Get(umtk_root_movies)}
    ELSE {PathParent(movie_list[i].path) :
            i \in {j \in 1..Len(movie_list) : movie_list[j].path # Absent}}

\* The edition folders cleanup_movie_content looks at.
MovieFoldersToScan(disk, movie_list, umtk_root_movies) ==
    {f \in disk :
        /\ PathParent(f) \in MovieDirsToScan(movie_list, umtk_root_movies)
        /\ \/ HasEdition(PathName(f), EditionTrending)
           \/ HasEdition(PathName(f), EditionComingSoon)}

\* The edition a folder name is read as: Trending when it carries that tag.
FolderEdition(name) ==
    IF HasEdition(name, EditionTrending) THEN EditionTrending ELSE EditionComingSoon

\* A cleanup that keeps a Coming Soon folder for either trending list.
MovieRemovalReasonAnyTrending(is_trending, title_without_year, found, current_upcoming_titles, current_trending_movies, trending_monitored, exclude_tags) ==
    IF is_trending
    THEN IF FoundInTrending(title_without_year, current_trending_movies) THEN ""
         ELSE "no longer in trending list"
    ELSE IF found = Absent THEN "movie no longer exists in Radarr"
    ELSE IF \/ Get(found).title \in current_upcoming_titles
            \/ FoundInTrending(Get(found).title, current_trending_movies)
         THEN ""
    ELSE IF Get(found).hasFile THEN "movie has been downloaded"
    ELSE IF ~Get(found).monitored THEN "movie is no longer monitored"
    ELSE IF HasExcludedTag(Get(found), exclude_tags) THEN "movie has excluded tags"
    ELSE "movie no longer meets criteria"

\* A cleanup that does not ask whether the movie has a file.
MovieRemovalReasonNoFileCheck(is_trending, title_without_year, found, current_upcoming_titles, current_trending_movies, trending_monitored, exclude_tags) ==
    IF is_trending
    THEN IF FoundInTrending(title_without_year, current_trending_movies) THEN ""
         ELSE "no longer in trending list"
    ELSE IF found = Absent THEN "movie no longer exists in Radarr"
    ELSE IF \/ Get(found).title \in current_upcoming_titles
            \/ FoundInTrending(Get(found).title, trending_monitored)
         THEN ""
    ELSE IF ~Get(found).monitored THEN "movie is no longer monitored"
    ELSE IF HasExcludedTag(Get(found), exclude_tags) THEN "movie has excluded tags"
    ELSE "movie no longer meets criteria"

\* should_remove and reason of cleanup_movie_content for one edition folder,
\* found being the tracker movie the folder resolves to; "" when the folder
\* is kept.
MovieRemovalReason(is_trending, title_without_year, found, current_upcoming_titles, current_trending_movies, trending_monitored, exclude_tags) ==
    IF is_trending
    THEN IF FoundInTrending(title_without_year, current_trending_movies) THEN ""
         ELSE "no longer in trending list"
    ELSE IF found = Absent THEN "movie no longer exists in Radarr"
    ELSE IF \/ Get(found).title \in current_upcoming_titles
            \/ FoundInTrending(Get(found).title, trending_monitored)
         THEN ""
    ELSE IF Get(found).hasFile THEN "movie has been downloaded"
    ELSE IF ~Get(found).monitored THEN "movie is no longer monitored"
    ELSE IF HasExcludedTag(Get(found), exclude_tags) THEN "movie has excluded tags"
    ELSE "movie no longer meets criteria"

\* The scan of cleanup_movie_content: the edition folders it removes, each
\* with the reason it prints.
MovieRemovals(disk, movie_list, future_movies, released_movies, trending_monitored, trending_request_needed, exclude_tags, umtk_root_movies) ==
    {r \in {[folder |-> f,
             reason |-> MovieRemovalReason(
                            HasEdition(PathName(f), EditionTrending),
                            TitleFromFolder(RemoveEdition(PathName(f),
                                                          FolderEdition(PathName(f)))),
                            MovieOfFolder(movie_list, f, umtk_root_movies),
                            TitlesOf(future_movies \o released_movies),
                            trending_monitored \o trending_request_needed,
                            trending_monitored,
                            exclude_tags)] :
                f \in MovieFoldersToScan(disk, movie_list, umtk_root_movies)} :
        r.reason # ""}

\* The artifact store after the removals of cleanup_movie_content.
cleanup_movie_content(disk, removals) == disk \ {r.folder : r \in removals}

(***************************************************************************)
(* Configuration and tracker records                                       *)
(***************************************************************************)
\* The values config.get() falls back to in main().
DefaultConfig ==
    [tv |-> 1, movies |-> 2, trending_tv |-> 0, trending_movies |-> 0,
     utc_offset |-> 0, cleanup |-> TRUE,
     umtk_root_tv |-> Absent, umtk_root_movies |-> Absent,
     future_days_upcoming_shows |-> 30, recent_days_new_show |-> 7,
     future_only_tv |-> FALSE, exclude_sonarr_tag_ids |-> <<>>,
     future_days_upcoming_movies |-> 30, past_days_upcoming_movies |-> 0,
     future_only |-> FALSE, include_inCinemas |-> FALSE,
     exclude_radarr_tag_ids |-> <<>>]

Year2023 == <<"2", "0", "2", "3">>

\* Directory names.
TvLibrary == <<"t", "v">>

MovieLibrary == <<"m", "v">>

UmtkRoot == <<"u">>

\* An episode record of the TV tracker.
Episode(season, number, monitored, hasFile, airDateUtc) ==
    [seasonNumber |-> season, episodeNumber |-> number, monitored |-> monitored,
     hasFile |-> hasFile, airDateUtc |-> airDateUtc]

\* A series record of the TV tracker, its episodes attached.
Series(title, monitored, tags, episodes) ==
    [id |-> 1, title |-> title, year |-> Year2023,
     tvdbId |-> "11", tmdbId |-> "12", imdbId |-> "tt1",
     path |-> <<TvLibrary, sanitize_filename(TitleYear(title, Year2023))>>,
     monitored |-> monitored, tags |-> tags, episodes |-> episodes]

\* A movie record of the movie tracker.
Movie(title, monitored, hasFile, tags, digitalRelease, physicalRelease, inCinemas) ==
    [title |-> title, year |-> Year2023, tmdbId |-> "21", imdbId |-> "tt2",
     path |-> <<MovieLibrary, sanitize_filename(TitleYear(title, Year2023))>>,
     folderName |-> sanitize_filename(TitleYear(title, Year2023)),
     monitored |-> monitored, hasFile |-> hasFile, tags |-> tags,
     digitalRelease |-> digitalRelease, physicalRelease |-> physicalRelease,
     inCinemas |-> inCinemas]

\* An entry of the trending source.
TrendingItem(title, tvdb_id, tmdb_id, imdb_id) ==
    [title |-> title, year |-> Year2023, tvdb_id |-> tvdb_id, tmdb_id |-> tmdb_id,
     imdb_id |-> imdb_id, rank |-> 1]

(***************************************************************************)
(* The finders as functions of the configuration and the tracker state     *)
(***************************************************************************)
\* The longest window, in days, a configuration is drawn with.
MaxDays == 1

HalfDay == HoursPerDay \div 2

Offsets == {0 - HalfDay, 0, HalfDay}

\* Air and release times: every half day from a day before the longest
\* window back to a day after it.
DateGrid == {HalfDay * k : k \in (0 - 2 * (MaxDays + 1))..(2 * (MaxDays + 1))}

OptionalDates == {Absent} \cup {Some(d) : d \in DateGrid}

\* Tag ids: the exclude list names no tag or tag 7; an item carries no tag
\* or tag 7.
TagLists == {<<>>, <<7>>}

TagSets == {{}, {7}}

\* The methods of the regular and of the trending flow: not both disabled.
MethodPairs == {<<Placeholder, Placeholder>>, <<Placeholder, Disabled>>,
                <<Disabled, Placeholder>>}

TvConfigs ==
    {[DefaultConfig EXCEPT !.tv = methods[1], !.movies = Disabled,
                           !.trending_tv = methods[2],
                           !.utc_offset = offset,
                           !.future_days_upcoming_shows = days,
                           !.recent_days_new_show = days,
                           !.future_only_tv = future_only_tv,
                           !.exclude_sonarr_tag_ids = exclude] :
        methods \in MethodPairs, offset \in Offsets, days \in 0..MaxDays,
        future_only_tv \in BOOLEAN, exclude \in TagLists}

MovieConfigs ==
    {[DefaultConfig EXCEPT !.tv = Disabled, !.movies = methods[1],
                           !.trending_movies = methods[2],
                           !.utc_offset = offset,
                           !.future_days_upcoming_movies = days,
                           !.past_days_upcoming_movies = past,
                           !.future_only = future_only,
                           !.include_inCinemas = cinemas,
                           !.exclude_radarr_tag_ids = exclude] :
        methods \in MethodPairs, offset \in Offsets, days \in 0..MaxDays,
        past \in 0..MaxDays, future_only \in BOOLEAN, cinemas \in BOOLEAN,
        exclude \in TagLists}

\* Episode lists: no S01E01, or one in any state, alone or followed by a
\* second episode that is downloaded or monitored.
EpisodeLists ==
    LET firsts == {<<>>} \cup
                  {<<Episode(1, 1, m, f, d)>> :
                      m \in BOOLEAN, f \in BOOLEAN, d \in OptionalDates}
        seconds == {<<>>, <<Episode(1, 2, TRUE, FALSE, Absent)>>,
                    <<Episode(1, 2, FALSE, TRUE, Absent)>>}
    IN {a \o b : a \in firsts, b \in seconds}

BuildTitle == <<"a">>

SeriesInputs ==
    {Series(BuildTitle, m, tags, eps) :
        m \in BOOLEAN, tags \in TagSets, eps \in EpisodeLists}

\* The trending source lists nothing, the tracker item under its primary
\* id, the tracker item under its last id only, or an unknown item that
\* carries the same title.
TrendingTvInputs ==
    {<<>>, <<TrendingItem(BuildTitle, "11", None, "")>>,
     <<TrendingItem(BuildTitle, None, None, "tt1")>>,
     <<TrendingItem(BuildTitle, "91", "92", "tt9")>>}

\* Digital, physical and cinema release times: any digital one, alone, with
\* an earlier physical or cinema release, or with a physical release that
\* follows the cinema release.
DateTriples ==
    {<<d, Absent, Absent>> : d \in OptionalDates} \cup
    {<<d, Some(0 - HoursPerDay), Absent>> : d \in OptionalDates} \cup
    {<<d, Absent, Some(0 - HalfDay)>> : d \in OptionalDates} \cup
    {<<d, Some(0 - HalfDay), Some(0 - HoursPerDay)>> : d \in OptionalDates}

MovieInputs ==
    {Movie(BuildTitle, m, f, tags, t[1], t[2], t[3]) :
        m \in BOOLEAN, f \in BOOLEAN, tags \in TagSets, t \in DateTriples}

TrendingMovieInputs ==
    {<<>>, <<TrendingItem(BuildTitle, None, "21", "")>>,
     <<TrendingItem(BuildTitle, None, None, "tt2")>>,
     <<TrendingItem(BuildTitle, None, "92", "tt9")>>}

(***************************************************************************)
(* Requests to the TV tracker that fail: sonarr.py, finders.py, main.py    *)
(***************************************************************************)
\* The kinds of request a run makes to the TV tracker, in the order of the
\* first request of each kind: process_sonarr_url, get_sonarr_series, the
\* episodes asked by find_upcoming_shows, by find_new_shows, by
\* process_trending_tv and by cleanup_tv_content.
SonarrStages == <<"health", "series", "upcoming", "new", "trending", "cleanup">>

\* Every request succeeds.
NoFailures == [from |-> "never", episodes |-> {}, tags |-> FALSE, mdblist |-> FALSE]

\* The tags of the TV tracker, as its /tag request lists them.
SonarrTags == <<[label |-> <<"A", "b">>, id |-> 7]>>

\* tag_name_to_id of get_tag_ids_from_names: a later tag replaces an earlier
\* one of the same lowered label.
TagIdOfName(all_tags, tag_name_lower) ==
    LastOf(all_tags, {i \in 1..Len(all_tags) :
                         LowerText(all_tags[i].label) = tag_name_lower})

\* get_tag_ids_from_names: no request for no name; a request that fails
\* gives no id; otherwise the ids of the names that are labels of tags, case
\* and surrounding blanks set aside, in the order of the names.
get_tag_ids_from_names(all_tags, tag_names, request_fails) ==
    IF tag_names = <<>> THEN <<>>
    ELSE IF request_fails THEN <<>>
    ELSE [i \in 1..Len(SelectSeq(tag_names,
                                 LAMBDA n : TagIdOfName(all_tags, LowerText(Strip(n)))
                                               # Absent)) |->
             Get(TagIdOfName(all_tags,
                             LowerText(Strip(SelectSeq(
                                 tag_names,
                                 LAMBDA n : TagIdOfName(all_tags, LowerText(Strip(n)))
                                               # Absent)[i])))).id]

\* The tracker is down when a request of that kind is made: it goes down
\* before the first request of some kind and stays down for the show pass.
SonarrDown(failures, stage) ==
    \E i, j \in DOMAIN SonarrStages :
        i <= j /\ SonarrStages[i] = failures.from /\ SonarrStages[j] = stage

\* get_sonarr_episodes raises: the tracker is down, or it fails for the
\* episodes of this series.
EpisodesRaise(failures, stage, series) ==
    SonarrDown(failures, stage) \/ series.id \in failures.episodes

\* A find_upcoming_shows that leaves out the series whose episode request
\* fails.
find_upcoming_shows_skips(series_list, exclude_tags, failures, stage) == FALSE

\* find_upcoming_shows raises what an episode request raises; it asks for
\* the episodes of the monitored series without an excluded tag.
find_upcoming_shows_raises(series_list, exclude_tags, failures, stage) ==
    \E i \in 1..Len(series_list) :
        /\ series_list[i].monitored
        /\ ~HasExcludedTag(series_list[i], exclude_tags)
        /\ EpisodesRaise(failures, stage, series_list[i])

\* find_new_shows asks for the episodes of every monitored series.
find_new_shows_raises(series_list, failures) ==
    \E i \in 1..Len(series_list) :
        /\ series_list[i].monitored
        /\ EpisodesRaise(failures, "new", series_list[i])

\* process_trending_tv asks for the episodes of every series it joins an
\* entry to.
process_trending_tv_raises(mdblist_items, series_list, failures) ==
    \E k \in 1..Len(mdblist_items) :
        /\ TrendingSeriesOf(mdblist_items[k], series_list) # Absent
        /\ EpisodesRaise(failures, "trending",
                         Get(TrendingSeriesOf(mdblist_items[k], series_list)))

\* The request at which the "try" of the show pass is left for its
\* "except", "none" when it is not.
ShowPassRaisesAt(cfg, series_list, mdblist_items, failures) ==
    IF SonarrDown(failures, "health") THEN "health"
    ELSE IF SonarrDown(failures, "series") THEN "series"
    ELSE IF /\ cfg.tv > 0
            /\ find_upcoming_shows_raises(series_list, cfg.exclude_sonarr_tag_ids,
                                          failures, "upcoming")
         THEN "upcoming"
    ELSE IF cfg.tv > 0 /\ find_new_shows_raises(series_list, failures) THEN "new"
    ELSE IF /\ cfg.trending_tv > 0
            /\ mdblist_items # <<>>
            /\ process_trending_tv_raises(mdblist_items, series_list, failures)
         THEN "trending"
    ELSE "none"

\* The show lists main() holds when the show pass is left at that request:
\* a finder that raises assigns nothing.
TvListsUntil(stage, cfg, series_list, mdblist_items) ==
    IF stage \in {"health", "series", "upcoming"}
    THEN TvLists([cfg EXCEPT !.tv = Disabled], series_list, <<>>)
    ELSE IF stage = "new"
    THEN find_upcoming_shows(series_list, cfg.future_days_upcoming_shows,
                             cfg.utc_offset, cfg.exclude_sonarr_tag_ids,
                             cfg.future_only_tv)
           @@ TvLists([cfg EXCEPT !.tv = Disabled], series_list, <<>>)
    ELSE IF stage = "trending" THEN TvLists(cfg, series_list, <<>>)
    ELSE TvLists(cfg, series_list, mdblist_items)

\* The loops over the regular shows are reached, and those over the
\* trending shows.
RegularShowsReached(stage) == stage \in {"trending", "none"}

TrendingShowsReached(stage) == stage = "none"

\* A show pass whose "except" ends the run.
MoviePassReachedUnlessRaised(stage) == stage = "none"

\* The movie pass is reached: the "except" of the show pass sets
\* tv_processing_failed and main() goes on below it.
MoviePassReached(stage) ==
    stage \in {SonarrStages[i] : i \in DOMAIN SonarrStages} \cup {"none"}

\* cleanup_tv_content asks for the episodes of the series of a folder that
\* is not trending-marked and whose series is not among the upcoming titles.
CleanupRaisesAt(disk, dir, series, current_upcoming_titles, failures) ==
    /\ ~disk[dir].trending
    /\ series # Absent
    /\ Get(series).title \notin current_upcoming_titles
    /\ EpisodesRaise(failures, "cleanup", Get(series))

\* The show folders at which the scan of cleanup_tv_content returns.
CleanupRaisingDirs(disk, series_list, cfg, failures) ==
    {d \in TvDirsToScan(disk, series_list, cfg.umtk_root_tv) :
        /\ disk[d].files # {}
        /\ CleanupRaisesAt(disk, d, SeriesOfDir(series_list, d, cfg.umtk_root_tv),
                           UpcomingTitles(find_upcoming_shows(
                               series_list, cfg.future_days_upcoming_shows,
                               cfg.utc_offset, cfg.exclude_sonarr_tag_ids,
                               cfg.future_only_tv)),
                           failures)}

\* The sets of show folders cleanup_tv_content can have handled when it
\* returns.  It returns at once when its own find_upcoming_shows raises, and
\* at the first folder whose episode request raises: the folders before
\* that one are those of the series before it in the catalog, or, under the
\* root override, whatever iterdir() yields first.
TvDirsScanned(disk, series_list, cfg, failures, raising) ==
    IF find_upcoming_shows_raises(series_list, cfg.exclude_sonarr_tag_ids, failures,
                                  "cleanup")
    THEN {{}}
    ELSE IF raising = {}
    THEN {TvDirsToScan(disk, series_list, cfg.umtk_root_tv)}
    ELSE IF cfg.umtk_root_tv # Absent
    THEN SUBSET (TvDirsToScan(disk, series_list, cfg.umtk_root_tv) \ raising)
    ELSE {{d \in TvDirsToScan(disk, series_list, cfg.umtk_root_tv) :
             \E i \in 1..Len(series_list) :
                /\ series_list[i].path = d
                /\ \A j \in 1..i : series_list[j].path \notin raising}}

(***************************************************************************)
(* Folders that cannot be written: cleanup.py                              *)
(***************************************************************************)
SeasonFolder == <<"S", "e", "a", "s", "o", "n", " ", "0", "0">>

\* A cleanup that stops removing once a folder cannot be written.
TvPermissionDeniedForAll(dir, umtk_root_tv, denied) == denied # {}

\* The os.access checks of cleanup_tv_content before it removes anything:
\* the show folder and its parent under the root override, otherwise the
\* file and the "Season 00" it lies in.
TvPermissionDenied(dir, umtk_root_tv, denied) ==
    IF umtk_root_tv # Absent
    THEN dir \in denied \/ PathParent(dir) \in denied
    ELSE Join(dir, SeasonFolder) \in denied

\* The os.access checks of cleanup_movie_content: the edition folder and
\* its parent.
MoviePermissionDenied(folder, denied) ==
    folder \in denied \/ PathParent(folder) \in denied

(***************************************************************************)
(* Title normalisation as a function of two titles                         *)
(***************************************************************************)
\* No run: what the run variables hold while titles are compared.
NoInputs ==
    /\ now = 0
    /\ config = DefaultConfig
    /\ all_series = <<>>
    /\ all_movies = <<>>
    /\ mdblist_tv_items = <<>>
    /\ mdblist_movies_items = <<>>
    /\ sonarr_failures = NoFailures
    /\ unwritable = {}

\* No comparison: what the title variables hold during a run.
NoTitles ==
    /\ title_a = <<>>
    /\ title_b = <<>>
    /\ key_a = <<>>
    /\ key_b = <<>>

\* No artifact, so none with a list it was created for.
NoOrigin == [a \in {} |-> ""]

\* Nothing on disk and no run yet.
EmptyStore ==
    /\ tv_disk = NoDirs
    /\ movie_disk = {}
    /\ created = {}
    /\ evicted = {}
    /\ origin = NoOrigin
    /\ settled = FALSE
    /\ tv_processing_failed = FALSE
    /\ permission_denied = {}
    /\ checked_count = 0
    /\ removed_count = 0

\* The longest title body (characters before an optional year suffix) drawn.
MaxTitleLen == 3

TitleChars == {"a", "A", " ", "-", "_", "2"}

YearSuffixes == {<<>>, <<" ", "(", "2", "0", "2", "3", ")">>}

TitleBodies == UNION {[1..n -> TitleChars] : n \in 1..MaxTitleLen}

TitleInputs == {b \o y : b \in TitleBodies, y \in YearSuffixes}

InitNorm ==
    /\ phase = "norm_input"
    /\ title_a \in TitleInputs
    /\ title_b \in TitleInputs
    /\ key_a = <<>>
    /\ key_b = <<>>
    /\ NoInputs
    /\ lists = EmptyLists
    /\ EmptyStore

\* The cleanup computes the key of the artifact's title and of a desired title.
NormalizeTitles ==
    /\ phase = "norm_input"
    /\ key_a' = normalize_title(title_a)
    /\ key_b' = normalize_title(title_b)
    /\ phase' = "norm_done"
    /\ UNCHANGED <<title_a, title_b, input_vars, lists, store_vars>>

NextNorm == NormalizeTitles

SpecNorm == InitNorm /\ [][NextNorm]_vars

(***************************************************************************)
(* The desired-state computation on drawn inputs                           *)
(***************************************************************************)
InitBuild ==
    /\ phase = "build_input"
    /\ NoTitles
    /\ now = 0
    /\ sonarr_failures = NoFailures
    /\ unwritable = {}
    /\ \/ /\ config \in TvConfigs
          /\ all_series \in {<<x>> : x \in SeriesInputs}
          /\ mdblist_tv_items \in TrendingTvInputs
          /\ all_movies = <<>>
          /\ mdblist_movies_items = <<>>
       \/ /\ config \in MovieConfigs
          /\ all_movies \in {<<x>> : x \in MovieInputs}
          /\ mdblist_movies_items \in TrendingMovieInputs
          /\ all_series = <<>>
          /\ mdblist_tv_items = <<>>
    /\ lists = EmptyLists
    /\ EmptyStore

\* The TV half of main() up to its lists.
BuildTvLists ==
    /\ phase = "build_input"
    /\ process_tv(config)
    /\ lists' = RunLists(config, all_series, mdblist_tv_items, all_movies,
                         mdblist_movies_items)
    /\ phase' = "build_done"
    /\ UNCHANGED <<norm_vars, input_vars, store_vars>>

\* The movie half of main() up to its lists.
BuildMovieLists ==
    /\ phase = "build_input"
    /\ process_movies(config)
    /\ lists' = RunLists(config, all_series, mdblist_tv_items, all_movies,
                         mdblist_movies_items)
    /\ phase' = "build_done"
    /\ UNCHANGED <<norm_vars, input_vars, store_vars>>

NextBuild == BuildTvLists \/ BuildMovieLists

SpecBuild == InitBuild /\ [][NextBuild]_vars

(***************************************************************************)
(* Runs of main() against a tracker that changes between them              *)
(***************************************************************************)
\* How many days the clock advances between runs.
MaxTicks == 1

RunTitle == <<"a">>

\* Titles of trending entries the trackers do not know.
UnknownTitles == {<<"b">>, <<"b", ":", "b">>}

RunTrendingTv ==
    {<<>>, <<TrendingItem(RunTitle, "11", None, "")>>} \cup
    {<<TrendingItem(t, "91", "92", "tt9")>> : t \in UnknownTitles}

RunTrendingMovies ==
    {<<>>, <<TrendingItem(RunTitle, None, "21", "")>>} \cup
    {<<TrendingItem(t, None, "92", "tt9")>> : t \in UnknownTitles}

\* A run has a window of one day, tag 7 excluded, and any of the method
\* pairs, offsets and root settings, with or without cleanup and the
\* aired or released category.
RunTvConfigs ==
    {[DefaultConfig EXCEPT !.tv = methods[1], !.movies = Disabled,
                           !.trending_tv = methods[2],
                           !.utc_offset = offset,
                           !.cleanup = cleanup,
                           !.umtk_root_tv = root,
                           !.future_days_upcoming_shows = 1,
                           !.recent_days_new_show = 1,
                           !.future_only_tv = future_only_tv,
                           !.exclude_sonarr_tag_ids = <<7>>] :
        methods \in MethodPairs, offset \in {0, HalfDay},
        root \in {Absent, Some(<<UmtkRoot>>)}, cleanup \in BOOLEAN,
        future_only_tv \in BOOLEAN}

RunMovieConfigs ==
    {[DefaultConfig EXCEPT !.tv = Disabled, !.movies = methods[1],
                           !.trending_movies = methods[2],
                           !.utc_offset = offset,
                           !.cleanup = cleanup,
                           !.umtk_root_movies = root,
                           !.future_days_upcoming_movies = 1,
                           !.future_only = future_only,
                           !.exclude_radarr_tag_ids = <<7>>] :
        methods \in MethodPairs, offset \in {0, HalfDay},
        root \in {Absent, Some(<<UmtkRoot>>)}, cleanup \in BOOLEAN,
        future_only \in BOOLEAN}

\* The tracker starts with nothing or with one monitored, untagged item
\* that is not downloaded and is due in half a day.
InitRun ==
    /\ phase = "run"
    /\ NoTitles
    /\ now = 0
    /\ sonarr_failures = NoFailures
    /\ unwritable = {}
    /\ \/ /\ config \in RunTvConfigs
          /\ all_series \in
                {<<>>, <<Series(RunTitle, TRUE, {},
                                <<Episode(1, 1, TRUE, FALSE, Some(HalfDay))>>)>>}
          /\ mdblist_tv_items \in RunTrendingTv
          /\ all_movies = <<>>
          /\ mdblist_movies_items = <<>>
       \/ /\ config \in RunMovieConfigs
          /\ all_movies \in
                {<<>>, <<Movie(RunTitle, TRUE, FALSE, {}, Some(HalfDay), Absent,
                               Absent)>>}
          /\ mdblist_movies_items \in RunTrendingMovies
          /\ all_series = <<>>
          /\ mdblist_tv_items = <<>>
    /\ lists = EmptyLists
    /\ EmptyStore

\* An edition folder as an artifact: where it lies and what it is called.
FolderArtifact(folder) == [dir |-> PathParent(folder), name |-> PathName(folder)]

MovieArtifacts(disk) == {FolderArtifact(f) : f \in disk}

\* The list an artifact was created for: the one recorded for an artifact
\* of an earlier run, otherwise the list of the loop that put it there.
ListOf(a, recorded, tv1, tv2, tv3, tv4, mv1, mv2, mv3) ==
    IF a \in DOMAIN recorded THEN recorded[a]
    ELSE IF a \in ShowArtifacts(tv1) THEN "future_shows"
    ELSE IF a \in ShowArtifacts(tv2) THEN "aired_shows"
    ELSE IF a \in ShowArtifacts(tv3) THEN "trending_tv_monitored"
    ELSE IF a \in ShowArtifacts(tv4) THEN "trending_tv_request_needed"
    ELSE IF a \in MovieArtifacts(mv1) THEN "future_movies"
    ELSE IF a \in MovieArtifacts(mv2) THEN "released_movies"
    ELSE IF a \in MovieArtifacts(mv3) THEN "trending_movies_monitored"
    ELSE "trending_movies_request_needed"

\* The removed show artifacts with the reason printed for their folder.
RemovedShows(disk, removals) ==
    UNION {{[dir |-> r.dir, name |-> f, reason |-> r.reason,
             trending |-> disk[r.dir].trending] : f \in disk[r.dir].files} :
              r \in removals}

\* The removed edition folders with the reason printed for them.
RemovedMovies(removals) ==
    {[dir |-> PathParent(r.folder), name |-> PathName(r.folder), reason |-> r.reason,
      trending |-> HasEdition(PathName(r.folder), EditionTrending)] : r \in removals}

\* One run of main() in which every request to the TV tracker succeeds and
\* every folder can be written: the lists, the show content of the regular
\* and of the trending flow, the show cleanup, then the same for movies.
Main ==
    /\ phase = "run"
    /\ sonarr_failures = NoFailures
    /\ unwritable = {}
    /\ \E run \in {RunLists(config, all_series, mdblist_tv_items, all_movies,
                            mdblist_movies_items)} :
       \E tv1 \in {ProcessShows(tv_disk, run.future_shows, config.umtk_root_tv,
                                config.tv, FALSE)} :
       \E tv2 \in {ProcessShows(tv1, run.aired_shows, config.umtk_root_tv,
                                config.tv, FALSE)} :
       \E tv3 \in {ProcessShows(tv2, run.trending_tv_monitored, config.umtk_root_tv,
                                config.trending_tv, TRUE)} :
       \E tv4 \in {ProcessShows(tv3, run.trending_tv_request_needed,
                                config.umtk_root_tv, config.trending_tv, TRUE)} :
       \E tv_removals \in
             {IF process_tv(config) /\ CleanupEnabled(config)
              THEN TvRemovals(tv4, all_series, config, run.trending_tv_monitored,
                              run.trending_tv_request_needed)
              ELSE {}} :
       \E mv1 \in {ProcessMovies(movie_disk, run.future_movies,
                                 config.umtk_root_movies, config.movies)} :
       \E mv2 \in {ProcessMovies(mv1, run.released_movies, config.umtk_root_movies,
                                 config.movies)} :
       \E mv3 \in {ProcessTrendingMovies(mv2, run.trending_movies_monitored,
                                         run.trending_movies_request_needed,
                                         config.umtk_root_movies,
                                         config.trending_movies)} :
       \E mv4 \in {ProcessTrendingMovies(mv3, run.trending_movies_request_needed,
                                         run.trending_movies_request_needed,
                                         config.umtk_root_movies,
                                         config.trending_movies)} :
       \E mv_removals \in
             {IF process_movies(config) /\ CleanupEnabled(config)
              THEN MovieRemovals(mv4, all_movies, run.future_movies,
                                 run.released_movies, run.trending_movies_monitored,
                                 run.trending_movies_request_needed,
                                 config.exclude_radarr_tag_ids,
                                 config.umtk_root_movies)
              ELSE {}} :
       \E removed \in {RemovedShows(tv4, tv_removals)
                         \cup RemovedMovies(mv_removals)} :
          /\ lists' = run
          /\ tv_disk' = cleanup_tv_content(tv4, tv_removals, config.umtk_root_tv)
          /\ movie_disk' = cleanup_movie_content(mv4, mv_removals)
          /\ created' = (ShowArtifacts(tv4) \cup MovieArtifacts(mv4))
                           \ (ShowArtifacts(tv_disk) \cup MovieArtifacts(movie_disk))
          /\ evicted' = {[dir |-> r.dir, name |-> r.name, reason |-> r.reason,
                          trending |-> r.trending,
                          list |-> ListOf([dir |-> r.dir, name |-> r.name], origin,
                                          tv1, tv2, tv3, tv4, mv1, mv2, mv3)] :
                            r \in removed}
          /\ origin' = [a \in ShowArtifacts(tv_disk') \cup MovieArtifacts(movie_disk')
                          |-> ListOf(a, origin, tv1, tv2, tv3, tv4, mv1, mv2, mv3)]
          /\ checked_count' =
                IF process_tv(config) /\ CleanupEnabled(config)
                THEN TvCheckedCount(tv4,
                                    TvDirsToScan(tv4, all_series, config.umtk_root_tv),
                                    tv_removals, config.umtk_root_tv)
                ELSE 0
          /\ removed_count' = TvRemovedCount(tv4, tv_removals, config.umtk_root_tv)
    /\ settled' = TRUE
    /\ tv_processing_failed' = FALSE
    /\ permission_denied' = {}
    /\ UNCHANGED <<phase, norm_vars, input_vars>>

\* What a change of the trackers, the trending source or the clock does to
\* the rest: the lists of the latest run and the record of what it did are
\* gone with the process that held them; the configuration and the
\* artifact store stay.
Outdated ==
    /\ settled' = FALSE
    /\ lists' = EmptyLists
    /\ created' = {}
    /\ evicted' = {}
    /\ tv_processing_failed' = FALSE
    /\ permission_denied' = {}
    /\ checked_count' = 0
    /\ removed_count' = 0
    /\ UNCHANGED <<phase, norm_vars, config, tv_disk, movie_disk, origin,
                   sonarr_failures, unwritable>>

\* A day passes.
Tick ==
    /\ phase = "run"
    /\ now < MaxTicks * HoursPerDay
    /\ now' = now + HoursPerDay
    /\ Outdated
    /\ UNCHANGED <<all_series, all_movies, mdblist_tv_items, mdblist_movies_items>>

\* The positions of S01E01 in the episode list of a series.
FirstEpisodeAt(series) ==
    {k \in 1..Len(series.episodes) :
        series.episodes[k].seasonNumber = 1 /\ series.episodes[k].episodeNumber = 1}

\* The TV tracker imports a file for S01E01.
DownloadFirstEpisode ==
    /\ phase = "run"
    /\ \E i \in 1..Len(all_series) : \E k \in FirstEpisodeAt(all_series[i]) :
          /\ ~all_series[i].episodes[k].hasFile
          /\ all_series' = [all_series EXCEPT ![i].episodes[k].hasFile = TRUE]
    /\ Outdated
    /\ UNCHANGED <<now, all_movies, mdblist_tv_items, mdblist_movies_items>>

\* The user stops monitoring a series.
UnmonitorSeries ==
    /\ phase = "run"
    /\ \E i \in 1..Len(all_series) :
          /\ all_series[i].monitored
          /\ all_series' = [all_series EXCEPT ![i].monitored = FALSE]
    /\ Outdated
    /\ UNCHANGED <<now, all_movies, mdblist_tv_items, mdblist_movies_items>>

\* The user stops monitoring S01E01.
UnmonitorFirstEpisode ==
    /\ phase = "run"
    /\ \E i \in 1..Len(all_series) : \E k \in FirstEpisodeAt(all_series[i]) :
          /\ all_series[i].episodes[k].monitored
          /\ all_series' = [all_series EXCEPT ![i].episodes[k].monitored = FALSE]
    /\ Outdated
    /\ UNCHANGED <<now, all_movies, mdblist_tv_items, mdblist_movies_items>>

\* The user gives a series the excluded tag.
TagSeries ==
    /\ phase = "run"
    /\ \E i \in 1..Len(all_series) :
          /\ all_series[i].tags = {}
          /\ all_series' = [all_series EXCEPT ![i].tags = {7}]
    /\ Outdated
    /\ UNCHANGED <<now, all_movies, mdblist_tv_items, mdblist_movies_items>>

\* The air date of S01E01 moves half a day back, up to a day and a half
\* from the start.
PostponeFirstEpisode ==
    /\ phase = "run"
    /\ \E i \in 1..Len(all_series) : \E k \in FirstEpisodeAt(all_series[i]) :
          LET air == all_series[i].episodes[k].airDateUtc
          IN /\ air # Absent
             /\ Get(air) < HoursPerDay + HalfDay
             /\ all_series' = [all_series EXCEPT
                                  ![i].episodes[k].airDateUtc = Some(Get(air) + HalfDay)]
    /\ Outdated
    /\ UNCHANGED <<now, all_movies, mdblist_tv_items, mdblist_movies_items>>

\* The user deletes a series from the TV tracker.
DeleteSeries ==
    /\ phase = "run"
    /\ \E i \in 1..Len(all_series) :
          all_series' = SubSeq(all_series, 1, i - 1) \o
                        SubSeq(all_series, i + 1, Len(all_series))
    /\ Outdated
    /\ UNCHANGED <<now, all_movies, mdblist_tv_items, mdblist_movies_items>>

\* The trending source lists something else for shows.
ChangeTrendingTv ==
    /\ phase = "run"
    /\ process_tv(config)
    /\ mdblist_tv_items' \in RunTrendingTv \ {mdblist_tv_items}
    /\ Outdated
    /\ UNCHANGED <<now, all_series, all_movies, mdblist_movies_items>>

\* The movie tracker imports a file for a movie.
DownloadMovie ==
    /\ phase = "run"
    /\ \E i \in 1..Len(all_movies) :
          /\ ~all_movies[i].hasFile
          /\ all_movies' = [all_movies EXCEPT ![i].hasFile = TRUE]
    /\ Outdated
    /\ UNCHANGED <<now, all_series, mdblist_tv_items, mdblist_movies_items>>

\* The user stops monitoring a movie.
UnmonitorMovie ==
    /\ phase = "run"
    /\ \E i \in 1..Len(all_movies) :
          /\ all_movies[i].monitored
          /\ all_movies' = [all_movies EXCEPT ![i].monitored = FALSE]
    /\ Outdated
    /\ UNCHANGED <<now, all_series, mdblist_tv_items, mdblist_movies_items>>

\* The user monitors a movie again.
MonitorMovie ==
    /\ phase = "run"
    /\ \E i \in 1..Len(all_movies) :
          /\ ~all_movies[i].monitored
          /\ all_movies' = [all_movies EXCEPT ![i].monitored = TRUE]
    /\ Outdated
    /\ UNCHANGED <<now, all_series, mdblist_tv_items, mdblist_movies_items>>

\* The user gives a movie the excluded tag.
TagMovie ==
    /\ phase = "run"
    /\ \E i \in 1..Len(all_movies) :
          /\ all_movies[i].tags = {}
          /\ all_movies' = [all_movies EXCEPT ![i].tags = {7}]
    /\ Outdated
    /\ UNCHANGED <<now, all_series, mdblist_tv_items, mdblist_movies_items>>

\* The user deletes a movie from the movie tracker.
DeleteMovie ==
    /\ phase = "run"
    /\ \E i \in 1..Len(all_movies) :
          all_movies' = SubSeq(all_movies, 1, i - 1) \o
                        SubSeq(all_movies, i + 1, Len(all_movies))
    /\ Outdated
    /\ UNCHANGED <<now, all_series, mdblist_tv_items, mdblist_movies_items>>

\* The trending source lists something else for movies.
ChangeTrendingMovies ==
    /\ phase = "run"
    /\ process_movies(config)
    /\ mdblist_movies_items' \in RunTrendingMovies \ {mdblist_movies_items}
    /\ Outdated
    /\ UNCHANGED <<now, all_series, all_movies, mdblist_tv_items>>

Next ==
    \/ Main
    \/ Tick
    \/ DownloadFirstEpisode
    \/ UnmonitorSeries
    \/ UnmonitorFirstEpisode
    \/ TagSeries
    \/ PostponeFirstEpisode
    \/ DeleteSeries
    \/ ChangeTrendingTv
    \/ DownloadMovie
    \/ UnmonitorMovie
    \/ MonitorMovie
    \/ TagMovie
    \/ DeleteMovie
    \/ ChangeTrendingMovies

Spec == InitRun /\ [][Next]_vars

(***************************************************************************)
(* Runs of main() while requests fail and folders cannot be written        *)
(***************************************************************************)
\* The second series of the catalog.
SecondTitle == <<"b">>

SecondSeries(monitored, episodes) ==
    [Series(SecondTitle, monitored, {}, episodes)
        EXCEPT !.id = 2, !.tvdbId = "31", !.tmdbId = "32", !.imdbId = "tt3"]

\* exclude_sonarr_tags names the tag of the tracker, in other letter case
\* and after a blank.
ExcludedTagName == <<" ", "a", "B">>

\* What fetch_mdblist_items returns for a list of valid items: nothing when
\* the request raises.
fetch_mdblist_items(items, request_fails) == IF request_fails THEN <<>> ELSE items

\* Shows and movies are both processed, with a window of one day or of
\* minus one day for the shows; exclude_sonarr_tag_ids is what the names of
\* exclude_sonarr_tags denote.
FailureConfigs ==
    {[DefaultConfig EXCEPT !.tv = methods[1], !.movies = Placeholder,
                           !.trending_tv = methods[2],
                           !.umtk_root_tv = root,
                           !.future_days_upcoming_shows = days,
                           !.recent_days_new_show = 1,
                           !.future_days_upcoming_movies = 1,
                           !.exclude_sonarr_tag_ids = <<7>>]
        @@ [exclude_sonarr_tags |-> <<ExcludedTagName>>] :
        methods \in MethodPairs, root \in {Absent, Some(<<UmtkRoot>>)},
        days \in {0 - 1, 1}}

\* What can fail: the tracker is down from some request on, or the episode
\* request of one series fails, or the tag request, or the requests to the
\* trending source.
FailureInputs ==
    {[from |-> SonarrStages[i], episodes |-> {}, tags |-> FALSE, mdblist |-> FALSE] :
        i \in DOMAIN SonarrStages}
    \cup {[from |-> "never", episodes |-> ids, tags |-> FALSE, mdblist |-> FALSE] :
             ids \in {{}, {1}, {2}}}
    \cup {[from |-> "never", episodes |-> {}, tags |-> TRUE, mdblist |-> FALSE]}
    \cup {[from |-> "never", episodes |-> {}, tags |-> FALSE, mdblist |-> TRUE]}

\* Two monitored series and a monitored movie, none downloaded, all due in
\* half a day, the second series with or without the tag that excludes it;
\* the trending source lists nothing or the second series.
InitFailures ==
    /\ phase = "run"
    /\ NoTitles
    /\ now = 0
    /\ config \in FailureConfigs
    /\ all_series \in
          {<<Series(RunTitle, TRUE, {},
                    <<Episode(1, 1, TRUE, FALSE, Some(HalfDay))>>),
                      [SecondSeries(TRUE,
                                    <<Episode(1, 1, TRUE, FALSE, Some(HalfDay))>>)
                          EXCEPT !.tags = tags]>> : tags \in TagSets}
    /\ mdblist_tv_items \in {<<>>, <<TrendingItem(SecondTitle, "31", None, "")>>}
    /\ all_movies = <<Movie(RunTitle, TRUE, FALSE, {}, Some(HalfDay), Absent,
                            Absent)>>
    /\ mdblist_movies_items = <<>>
    /\ sonarr_failures = NoFailures
    /\ unwritable = {}
    /\ lists = EmptyLists
    /\ EmptyStore

\* One run of main(): the show pass up to the request that raises, the
\* show cleanup up to the folder at which it returns, then the movie pass;
\* a folder that cannot be written stays and is reported.
MainWithFailures ==
    /\ phase = "run"
    /\ \E tv_items \in {fetch_mdblist_items(mdblist_tv_items,
                                             sonarr_failures.mdblist)} :
       \E movie_items \in {fetch_mdblist_items(mdblist_movies_items,
                                                sonarr_failures.mdblist)} :
       \E cfg \in {[config EXCEPT !.exclude_sonarr_tag_ids =
                       get_tag_ids_from_names(SonarrTags, config.exclude_sonarr_tags,
                                              sonarr_failures.tags)]} :
       \E stage \in {IF process_tv(cfg)
                     THEN ShowPassRaisesAt(cfg, all_series, tv_items,
                                           sonarr_failures)
                     ELSE "none"} :
       \E movie_config \in
             {IF MoviePassReached(stage) THEN cfg
              ELSE [cfg EXCEPT !.movies = Disabled,
                                  !.trending_movies = Disabled]} :
       \E run \in {TvListsUntil(stage, cfg, all_series, tv_items)
                     @@ MovieLists(movie_config, all_movies,
                                   movie_items)} :
       \E tv1 \in {IF RegularShowsReached(stage)
                   THEN ProcessShows(tv_disk, run.future_shows, cfg.umtk_root_tv,
                                     cfg.tv, FALSE)
                   ELSE tv_disk} :
       \E tv2 \in {IF RegularShowsReached(stage)
                   THEN ProcessShows(tv1, run.aired_shows, cfg.umtk_root_tv,
                                     cfg.tv, FALSE)
                   ELSE tv1} :
       \E tv3 \in {IF TrendingShowsReached(stage)
                   THEN ProcessShows(tv2, run.trending_tv_monitored,
                                     cfg.umtk_root_tv, cfg.trending_tv, TRUE)
                   ELSE tv2} :
       \E tv4 \in {IF TrendingShowsReached(stage)
                   THEN ProcessShows(tv3, run.trending_tv_request_needed,
                                     cfg.umtk_root_tv, cfg.trending_tv, TRUE)
                   ELSE tv3} :
       \E scanned \in
             (IF stage = "none" /\ process_tv(cfg) /\ CleanupEnabled(cfg)
              THEN TvDirsScanned(tv4, all_series, cfg, sonarr_failures,
                                 CleanupRaisingDirs(tv4, all_series, cfg,
                                                    sonarr_failures))
              ELSE {{}}) :
       \E tv_wanted \in
             {{r \in TvRemovals(tv4, all_series, cfg, run.trending_tv_monitored,
                                run.trending_tv_request_needed) :
                  r.dir \in scanned}} :
       \E tv_removals \in
             {{r \in tv_wanted :
                  ~TvPermissionDenied(r.dir, cfg.umtk_root_tv, unwritable)}} :
       \E mv1 \in {ProcessMovies(movie_disk, run.future_movies,
                                 cfg.umtk_root_movies, movie_config.movies)} :
       \E mv2 \in {ProcessMovies(mv1, run.released_movies, cfg.umtk_root_movies,
                                 movie_config.movies)} :
       \E mv3 \in {ProcessTrendingMovies(mv2, run.trending_movies_monitored,
                                         run.trending_movies_request_needed,
                                         cfg.umtk_root_movies,
                                         movie_config.trending_movies)} :
       \E mv4 \in {ProcessTrendingMovies(mv3, run.trending_movies_request_needed,
                                         run.trending_movies_request_needed,
                                         cfg.umtk_root_movies,
                                         movie_config.trending_movies)} :
       \E mv_wanted \in
             {IF process_movies(movie_config) /\ CleanupEnabled(cfg)
              THEN MovieRemovals(mv4, all_movies, run.future_movies,
                                 run.released_movies, run.trending_movies_monitored,
                                 run.trending_movies_request_needed,
                                 cfg.exclude_radarr_tag_ids,
                                 cfg.umtk_root_movies)
              ELSE {}} :
       \E mv_removals \in
             {{r \in mv_wanted : ~MoviePermissionDenied(r.folder, unwritable)}} :
       \E removed \in {RemovedShows(tv4, tv_removals)
                         \cup RemovedMovies(mv_removals)} :
          /\ lists' = run
          /\ tv_disk' = cleanup_tv_content(tv4, tv_removals, cfg.umtk_root_tv)
          /\ movie_disk' = cleanup_movie_content(mv4, mv_removals)
          /\ created' = (ShowArtifacts(tv4) \cup MovieArtifacts(mv4))
                           \ (ShowArtifacts(tv_disk) \cup MovieArtifacts(movie_disk))
          /\ evicted' = {[dir |-> r.dir, name |-> r.name, reason |-> r.reason,
                          trending |-> r.trending,
                          list |-> ListOf([dir |-> r.dir, name |-> r.name], origin,
                                          tv1, tv2, tv3, tv4, mv1, mv2, mv3)] :
                            r \in removed}
          /\ origin' = [a \in ShowArtifacts(tv_disk') \cup MovieArtifacts(movie_disk')
                          |-> ListOf(a, origin, tv1, tv2, tv3, tv4, mv1, mv2, mv3)]
          /\ checked_count' =
                TvCheckedCount(tv4, scanned, tv_removals, cfg.umtk_root_tv)
                   + (IF /\ stage = "none" /\ process_tv(cfg) /\ CleanupEnabled(cfg)
                         /\ ~find_upcoming_shows_raises(
                                all_series, cfg.exclude_sonarr_tag_ids,
                                sonarr_failures, "cleanup")
                         /\ CleanupRaisingDirs(tv4, all_series, cfg,
                                               sonarr_failures) # {}
                      THEN 1 ELSE 0)
          /\ removed_count' = TvRemovedCount(tv4, tv_removals, cfg.umtk_root_tv)
          /\ tv_processing_failed' = (stage # "none")
          /\ permission_denied' = {r.dir : r \in tv_wanted \ tv_removals}
                                     \cup {r.folder : r \in mv_wanted \ mv_removals}
    /\ settled' = TRUE
    /\ UNCHANGED <<phase, norm_vars, input_vars>>

\* The record of the latest run is gone with its process.
RunForgotten ==
    /\ settled' = FALSE
    /\ lists' = EmptyLists
    /\ created' = {}
    /\ evicted' = {}
    /\ tv_processing_failed' = FALSE
    /\ permission_denied' = {}
    /\ checked_count' = 0
    /\ removed_count' = 0
    /\ UNCHANGED <<phase, norm_vars, now, config, all_series, all_movies,
                   mdblist_tv_items, mdblist_movies_items, tv_disk, movie_disk,
                   origin>>

\* The TV tracker starts or stops failing.
SonarrFails ==
    /\ phase = "run"
    /\ sonarr_failures' \in FailureInputs \ {sonarr_failures}
    /\ RunForgotten
    /\ UNCHANGED unwritable

\* The places whose permissions the cleanups ask for, of the artifacts on
\* disk.
ArtifactFolders ==
    {IF config.umtk_root_tv # Absent THEN d ELSE Join(d, SeasonFolder) :
        d \in {x \in DOMAIN tv_disk : tv_disk[x].files # {}}}
    \cup movie_disk

\* Somebody takes the write permission of one of them away, or gives every
\* permission back.
ChangePermissions ==
    /\ phase = "run"
    /\ unwritable' \in ({{}} \cup {{f} : f \in ArtifactFolders}) \ {unwritable}
    /\ RunForgotten
    /\ UNCHANGED sonarr_failures

NextFailures ==
    \/ MainWithFailures
    \/ SonarrFails
    \/ ChangePermissions
    \/ UnmonitorSeries
    \/ DownloadMovie

SpecFailures == InitFailures /\ [][NextFailures]_vars

(***************************************************************************)
(* The cleanups on catalogs whose items share a folder                     *)
(***************************************************************************)
\* A second root folder of the TV tracker.
OtherLibrary == <<"t", "2">>

\* list(reversed(s))
Reverse(s) == [i \in 1..Len(s) |-> s[Len(s) + 1 - i]]

\* S01E01 not downloaded and due in half a day or in a day, or aired and
\* downloaded.
OrderEpisodes ==
    {<<Episode(1, 1, TRUE, FALSE, Some(HalfDay))>>,
     <<Episode(1, 1, TRUE, FALSE, Some(HoursPerDay))>>,
     <<Episode(1, 1, TRUE, TRUE, Some(0 - HalfDay))>>}

\* Two series whose folders have the same name in two root folders, the
\* second with the title of the first or with one that differs in a
\* character the folder name does not keep; in either order.
OrderSeriesPairs ==
    {<<Series(RunTitle, m[1], {}, eps[1]),
       [Series(t, m[2], {}, eps[2])
           EXCEPT !.id = 2, !.tvdbId = "31", !.tmdbId = "32", !.imdbId = "tt3",
                  !.path = <<OtherLibrary,
                             sanitize_filename(TitleYear(RunTitle, Year2023))>>]>> :
        m \in BOOLEAN \X BOOLEAN, eps \in OrderEpisodes \X OrderEpisodes,
        t \in {RunTitle, <<"a", "?">>}}

\* Two movies of the same title and year, in either order.
OrderMoviePairs ==
    {<<Movie(RunTitle, m[1], f[1], {}, d[1], Absent, Absent),
       [Movie(RunTitle, m[2], f[2], {}, d[2], Absent, Absent)
           EXCEPT !.tmdbId = "31", !.imdbId = "tt3",
                  !.path = <<MovieLibrary, <<"a", "2">>>>]>> :
        m \in BOOLEAN \X BOOLEAN, f \in BOOLEAN \X BOOLEAN,
        d \in {Some(HalfDay), Some(3 * HalfDay)} \X {Some(HalfDay), Some(3 * HalfDay)}}

OrderTvConfigs ==
    {[DefaultConfig EXCEPT !.tv = methods[1], !.movies = Disabled,
                           !.trending_tv = methods[2],
                           !.utc_offset = offset,
                           !.umtk_root_tv = root,
                           !.future_days_upcoming_shows = 1] :
        methods \in MethodPairs, offset \in {0, HalfDay},
        root \in {Absent, Some(<<UmtkRoot>>)}}

OrderMovieConfigs ==
    {[DefaultConfig EXCEPT !.tv = Disabled, !.movies = methods[1],
                           !.trending_movies = methods[2],
                           !.umtk_root_movies = root,
                           !.future_days_upcoming_movies = 1] :
        methods \in MethodPairs,
        root \in {Absent, Some(<<UmtkRoot>>)}}

\* The show_dict an earlier run had for the series.
OrderShow(series) ==
    [title |-> series.title, tvdbId |-> series.tvdbId, path |-> series.path,
     imdbId |-> series.imdbId, year |-> series.year, airDate |-> Absent]

\* The show_dict a run had for the series before the tracker renamed it.
FormerShow(series) == [OrderShow(series) EXCEPT !.title = SecondTitle]

\* The state in which a cleanup is called: the lists main() has computed,
\* and on disk the content earlier runs created for every item of the
\* catalog, in the regular or in the trending flow, for the first series
\* of the catalog also under a former title.
InitOrder ==
    /\ phase = "order_input"
    /\ NoTitles
    /\ now = 0
    /\ sonarr_failures = NoFailures
    /\ unwritable = {}
    /\ \/ /\ config \in OrderTvConfigs
          /\ \E pair \in OrderSeriesPairs : all_series \in {pair, Reverse(pair)}
          /\ mdblist_tv_items \in {<<>>, <<TrendingItem(RunTitle, "11", None, "")>>}
          /\ all_movies = <<>>
          /\ mdblist_movies_items = <<>>
          /\ \E marked \in BOOLEAN : \E renamed \in BOOLEAN :
                tv_disk = ProcessShows(ProcessShows(NoDirs,
                                                    IF renamed
                                                    THEN <<FormerShow(all_series[1])>>
                                                    ELSE <<>>,
                                                    config.umtk_root_tv, Placeholder,
                                                    marked),
                                       [i \in 1..Len(all_series) |->
                                           OrderShow(all_series[i])],
                                       config.umtk_root_tv, Placeholder, marked)
          /\ movie_disk = {}
       \/ /\ config \in OrderMovieConfigs
          /\ \E pair \in OrderMoviePairs : all_movies \in {pair, Reverse(pair)}
          /\ mdblist_movies_items \in
                {<<>>, <<TrendingItem(RunTitle, None, "21", "")>>}
          /\ all_series = <<>>
          /\ mdblist_tv_items = <<>>
          /\ tv_disk = NoDirs
          /\ movie_disk = ProcessMovies({}, all_movies, config.umtk_root_movies,
                                        Placeholder)
    /\ lists = RunLists(config, all_series, mdblist_tv_items, all_movies,
                        mdblist_movies_items)
    /\ created = {}
    /\ evicted = {}
    /\ origin = [a \in ShowArtifacts(tv_disk) \cup MovieArtifacts(movie_disk) |->
                    IF a \in ShowArtifacts(tv_disk) THEN "future_shows"
                    ELSE "future_movies"]
    /\ settled = FALSE
    /\ tv_processing_failed = FALSE
    /\ permission_denied = {}
    /\ checked_count = 0
    /\ removed_count = 0

\* One call of cleanup_tv_content as main() makes it.
CleanupShows ==
    /\ phase = "order_input"
    /\ process_tv(config)
    /\ \E removals \in {TvRemovals(tv_disk, all_series, config,
                                    lists.trending_tv_monitored,
                                    lists.trending_tv_request_needed)} :
          /\ tv_disk' = cleanup_tv_content(tv_disk, removals, config.umtk_root_tv)
          /\ evicted' = {[dir |-> r.dir, name |-> r.name, reason |-> r.reason,
                          trending |-> r.trending,
                          list |-> origin[[dir |-> r.dir, name |-> r.name]]] :
                            r \in RemovedShows(tv_disk, removals)}
          /\ origin' = [a \in ShowArtifacts(tv_disk') |-> origin[a]]
          /\ checked_count' =
                TvCheckedCount(tv_disk,
                               TvDirsToScan(tv_disk, all_series, config.umtk_root_tv),
                               removals, config.umtk_root_tv)
          /\ removed_count' = TvRemovedCount(tv_disk, removals, config.umtk_root_tv)
    /\ phase' = "order_done"
    /\ settled' = TRUE
    /\ UNCHANGED <<norm_vars, input_vars, lists, movie_disk, created,
                   tv_processing_failed, permission_denied>>

\* One call of cleanup_movie_content as main() makes it.
CleanupMovies ==
    /\ phase = "order_input"
    /\ process_movies(config)
    /\ \E removals \in {MovieRemovals(movie_disk, all_movies, lists.future_movies,
                                       lists.released_movies,
                                       lists.trending_movies_monitored,
                                       lists.trending_movies_request_needed,
                                       config.exclude_radarr_tag_ids,
                                       config.umtk_root_movies)} :
          /\ movie_disk' = cleanup_movie_content(movie_disk, removals)
          /\ evicted' = {[dir |-> r.dir, name |-> r.name, reason |-> r.reason,
                          trending |-> r.trending,
                          list |-> origin[[dir |-> r.dir, name |-> r.name]]] :
                            r \in RemovedMovies(removals)}
          /\ origin' = [a \in MovieArtifacts(movie_disk') |-> origin[a]]
    /\ phase' = "order_done"
    /\ settled' = TRUE
    /\ UNCHANGED <<norm_vars, input_vars, lists, tv_disk, created,
                   tv_processing_failed, permission_denied, checked_count,
                   removed_count>>

NextOrder == CleanupShows \/ CleanupMovies

SpecOrder == InitOrder /\ [][NextOrder]_vars

(***************************************************************************)
(* Properties of the category lists                                        *)
(***************************************************************************)
Members(list) == {list[i] : i \in DOMAIN list}

SeriesSet == Members(all_series)

MovieSet == Members(all_movies)

\* The list holds the tracker series / the tracker movie.
ShowIn(list, series) == \E e \in Members(list) : e.tvdbId = series.tvdbId

MovieIn(list, movie) == \E e \in Members(list) : e.tmdbId = movie.tmdbId

RegularShowLists == {"future_shows", "aired_shows", "new_shows"}

TrendingShowLists == {"trending_tv_monitored", "trending_tv_request_needed"}

RegularMovieLists == {"future_movies", "released_movies"}

TrendingMovieLists == {"trending_movies_monitored", "trending_movies_request_needed"}

\* C1 as stated: an item whose tracker record has monitored = false is in
\* none of the seven category lists.
C1_UnmonitoredInNoList ==
    phase = "build_done" =>
        /\ \A x \in SeriesSet : ~x.monitored =>
              \A l \in RegularShowLists \cup TrendingShowLists : ~ShowIn(lists[l], x)
        /\ \A x \in MovieSet : ~x.monitored =>
              \A l \in RegularMovieLists \cup TrendingMovieLists : ~MovieIn(lists[l], x)

\* C1, amended: an item whose tracker record has monitored = false is in
\* none of FutureShow, AiredShow, NewShow, FutureMovie, ReleasedMovie and
\* TrendingMonitored (a trending entry that joins it is in
\* TrendingRequestNeeded when nothing of it is downloaded).
C1_UnmonitoredOnlyRequestNeeded ==
    phase = "build_done" =>
        /\ \A x \in SeriesSet : ~x.monitored =>
              \A l \in RegularShowLists \cup {"trending_tv_monitored"} :
                  ~ShowIn(lists[l], x)
        /\ \A x \in MovieSet : ~x.monitored =>
              \A l \in RegularMovieLists \cup {"trending_movies_monitored"} :
                  ~MovieIn(lists[l], x)

\* An unmonitored series that the monitored flag alone keeps out of
\* FutureShow, joined by a trending entry, after the lists are built.
C1_Witness ==
    /\ phase = "build_done"
    /\ \E x \in SeriesSet :
          /\ ~x.monitored
          /\ UpcomingShowClass([x EXCEPT !.monitored = TRUE],
                               FirstEpisode(get_sonarr_episodes(x)),
                               config.future_days_upcoming_shows, config.utc_offset,
                               config.exclude_sonarr_tag_ids, config.future_only_tv)
                = "future"
          /\ ShowIn(lists.trending_tv_request_needed, x)

\* The S01E01 of a series that qualifies but for its air date: monitored,
\* no excluded tag, S01E01 monitored, not downloaded and dated.
QualifyingFirst(x) ==
    LET first == FirstEpisode(x.episodes)
    IN /\ x.monitored
       /\ ~HasExcludedTag(x, config.exclude_sonarr_tag_ids)
       /\ first # Absent
       /\ Get(first).monitored
       /\ ~Get(first).hasFile
       /\ Get(first).airDateUtc # Absent

\* The offset-adjusted S01E01 air time of a series.
AdjustedAir(x) == Get(Get(FirstEpisode(x.episodes)).airDateUtc) + config.utc_offset

\* The end of the window on the clock the future/aired split uses.
WindowEdge == now + config.utc_offset + HoursPerDay * config.future_days_upcoming_shows

\* C5 as stated: a qualifying series whose adjusted S01E01 air date is
\* exactly now + future_days_upcoming_shows, now being the clock of the
\* future/aired split, is in the upcoming set; one day later it is in no
\* regular list.  The regular show flow is enabled.
C5_WindowBoundary ==
    (phase = "build_done" /\ config.tv > 0) =>
        \A x \in SeriesSet : QualifyingFirst(x) =>
            /\ AdjustedAir(x) = WindowEdge =>
                  ShowIn(lists.future_shows, x) \/ ShowIn(lists.aired_shows, x)
            /\ AdjustedAir(x) = WindowEdge + HoursPerDay =>
                  \A l \in RegularShowLists : ~ShowIn(lists[l], x)

\* A qualifying series at the edge of the window, after the lists are built.
C5_Witness ==
    /\ phase = "build_done"
    /\ config.tv > 0
    /\ \E x \in SeriesSet : QualifyingFirst(x) /\ AdjustedAir(x) = WindowEdge

\* C7: a monitored, not downloaded, untagged movie whose selected release
\* date d is before now is in ReleasedMovie exactly when future_only is
\* false and (past_days_upcoming_movies = 0 or d >= now - past_days), and
\* is never in FutureMovie.
C7_ReleasedMovie ==
    phase = "build_done" =>
        \A x \in MovieSet :
            LET release == ReleaseOf(x, config.include_inCinemas)
                d == Get(release.date)
                past == config.past_days_upcoming_movies
            IN (config.movies > 0 /\ x.monitored /\ ~x.hasFile /\ x.tags = {}
                    /\ release.date # Absent /\ d < now) =>
                 /\ MovieIn(lists.released_movies, x) <=>
                        (~config.future_only /\
                            (past = 0 \/ d >= now - HoursPerDay * past))
                 /\ ~MovieIn(lists.future_movies, x)

\* A qualifying movie released before now, a lower bound configured, listed
\* as ReleasedMovie.
C7_Witness ==
    /\ phase = "build_done"
    /\ config.past_days_upcoming_movies > 0
    /\ \E x \in MovieSet :
          /\ x.monitored /\ ~x.hasFile /\ x.tags = {}
          /\ ReleaseOf(x, config.include_inCinemas).date # Absent
          /\ Get(ReleaseOf(x, config.include_inCinemas).date) < now
          /\ MovieIn(lists.released_movies, x)

\* Something of the series is downloaded.
AnyDownloaded(x) == \E i \in DOMAIN x.episodes : x.episodes[i].hasFile

\* C8: a trending entry that joins a tracker item with downloaded content
\* (the movie has a file, an episode of the series has a file) is in
\* neither trending list.
C8_DownloadedNotTrending ==
    phase = "build_done" =>
        /\ \A item \in Members(mdblist_tv_items) :
              LET found == TrendingSeriesOf(item, all_series)
              IN (found # Absent /\ AnyDownloaded(Get(found))) =>
                    \A l \in TrendingShowLists : ~ShowIn(lists[l], Get(found))
        /\ \A item \in Members(mdblist_movies_items) :
              LET found == TrendingMovieOf(item, all_movies)
              IN (found # Absent /\ Get(found).hasFile) =>
                    \A l \in TrendingMovieLists : ~MovieIn(lists[l], Get(found))

\* A trending entry joins a monitored series with a monitored episode and a
\* downloaded one, after the lists are built.
C8_Witness ==
    /\ phase = "build_done"
    /\ \E item \in Members(mdblist_tv_items) :
          LET found == TrendingSeriesOf(item, all_series)
          IN /\ found # Absent
             /\ Get(found).monitored
             /\ AnyDownloaded(Get(found))
             /\ \E i \in DOMAIN Get(found).episodes : Get(found).episodes[i].monitored

\* The titles a list names.
Titles(list) == {e.title : e \in Members(list)}

\* C9 as stated: no title is in more than one category list of a run.
C9_ListsDisjoint ==
    phase = "build_done" =>
        /\ \A l1, l2 \in RegularShowLists \cup TrendingShowLists :
              l1 # l2 => Titles(lists[l1]) \cap Titles(lists[l2]) = {}
        /\ \A l1, l2 \in RegularMovieLists \cup TrendingMovieLists :
              l1 # l2 => Titles(lists[l1]) \cap Titles(lists[l2]) = {}

\* A series in FutureShow that a trending entry joins, after the lists are
\* built.
C9_Witness ==
    /\ phase = "build_done"
    /\ \E x \in SeriesSet :
          /\ ShowIn(lists.future_shows, x)
          /\ \E item \in Members(mdblist_tv_items) :
                TrendingSeriesOf(item, all_series) = Some(x)

(***************************************************************************)
(* Properties of the title key                                             *)
(***************************************************************************)
\* The title without a parenthesized 4-digit year at its end.
DropYearSuffix(s) ==
    LET t == RStrip(s)
        k == Len(t) - YearDigits - 1
    IN IF k >= 1 /\ YearAt(t, k) THEN SubSeq(t, 1, k - 1) ELSE s

\* What is left of a title when letter case, punctuation, whitespace runs
\* and a year suffix are disregarded.
Canon(s) ==
    JoinSplit(LowerText(SelectSeq(DropYearSuffix(s),
                                  LAMBDA c : IsAlnum(c) \/ IsSpace(c))))

\* C10 as stated: two titles get the same key exactly when they differ only
\* in letter case, punctuation, whitespace runs and a parenthesized year
\* suffix.
C10_SameKeyIffSameCanon ==
    phase = "norm_done" => ((key_a = key_b) <=> (Canon(title_a) = Canon(title_b)))

\* Two titles that differ in case and year suffix only, their keys computed.
C10_Witness ==
    /\ phase = "norm_done"
    /\ title_a # title_b
    /\ Canon(title_a) = Canon(title_b)
    /\ key_a = key_b
    /\ Len(title_a) > Len(title_b) + YearDigits

(***************************************************************************)
(* Properties of a run: what is created, kept and evicted                  *)
(***************************************************************************)
\* Where the artifact of a listed show lies, if the program can name a folder.
ShowArtifactOf(show) ==
    LET dir == ShowDirOf(show, config.umtk_root_tv)
    IN IF dir = Absent THEN {}
       ELSE {[dir |-> Get(dir), name |-> clean_title(show.title) \o <<ComingSoonFile>>]}

\* Where the edition folder of a listed movie lies.
MovieArtifactOf(movie, edition) ==
    LET folder == MovieFolderOf(movie, config.umtk_root_movies, edition)
    IN IF folder = Absent THEN {} ELSE {FolderArtifact(Get(folder))}

IsShowArtifact(a) == a.name[Len(a.name)] = ComingSoonFile

\* The members of the desired category that is relevant to an artifact:
\* the trending lists for a trending-marked one, FutureShow and AiredShow for
\* any other show artifact, FutureMovie, ReleasedMovie and TrendingMonitored
\* for a Coming Soon folder.
RelevantMembers(a, marked) ==
    IF IsShowArtifact(a)
    THEN IF marked
         THEN Members(lists.trending_tv_monitored)
                \cup Members(lists.trending_tv_request_needed)
         ELSE Members(lists.future_shows) \cup Members(lists.aired_shows)
    ELSE IF marked
         THEN Members(lists.trending_movies_monitored)
                \cup Members(lists.trending_movies_request_needed)
         ELSE Members(lists.future_movies) \cup Members(lists.released_movies)
                \cup Members(lists.trending_movies_monitored)

\* The artifact lies where the program puts the artifact of a relevant member.
DesiredAt(a, marked) ==
    \E m \in RelevantMembers(a, marked) :
        a \in (IF IsShowArtifact(a) THEN ShowArtifactOf(m)
               ELSE MovieArtifactOf(m, IF marked THEN EditionTrending
                                       ELSE EditionComingSoon))

\* The title an artifact's folder name carries.
FolderTitle(a, marked) ==
    IF IsShowArtifact(a) THEN TitleFromFolder(PathName(a.dir))
    ELSE TitleFromFolder(RemoveEdition(a.name, IF marked THEN EditionTrending
                                               ELSE EditionComingSoon))

\* The folder title of the artifact has the key of a relevant member's title.
DesiredByKey(a, marked) ==
    \E m \in RelevantMembers(a, marked) :
        normalize_title(FolderTitle(a, marked)) = normalize_title(m.title)

\* The artifacts on disk, each with its trending mark.
OnDisk ==
    {[dir |-> a.dir, name |-> a.name, trending |-> tv_disk[a.dir].trending] :
        a \in ShowArtifacts(tv_disk)}
    \cup {[dir |-> a.dir, name |-> a.name,
           trending |-> HasEdition(a.name, EditionTrending)] :
            a \in MovieArtifacts(movie_disk)}

Bare(e) == [dir |-> e.dir, name |-> e.name]

\* C2 as stated: a cleanup pass evicts no artifact that is the artifact of a
\* member of its relevant desired category.
C2_DesiredNeverEvicted ==
    settled => \A e \in evicted : ~DesiredAt(Bare(e), e.trending)

\* C3 as stated: after a full pass with cleanup enabled no artifact is left on
\* disk that no member of its relevant desired category resolves to, neither
\* by its place nor by the key of its folder title.
C3_StaleEvictedSamePass ==
    (settled /\ config.cleanup) =>
        \A a \in OnDisk :
            DesiredAt(Bare(a), a.trending) \/ DesiredByKey(Bare(a), a.trending)

\* C4 as stated: a pass that follows a completed pass with the trackers, the
\* trending source and the clock unchanged creates no artifact and evicts none.
C4_SecondPassIdle ==
    [][(settled /\ settled') => (created' = {} /\ evicted' = {})]_vars

\* The series whose S01E01 has a file.
FirstDownloaded(x) ==
    FirstEpisode(x.episodes) # Absent /\ Get(FirstEpisode(x.episodes)).hasFile

\* C6: after a pass that cleans up, with the S01E01 of a series downloaded,
\* no artifact created for the series as FutureShow is left in its
\* Season 00, and every
\* artifact without trending mark evicted from it has the reason
\* "S01E01 now available", whatever the monitored flags, tags and air date.
C6_NowAvailable ==
    (settled /\ config.cleanup) =>
        \A x \in SeriesSet : FirstDownloaded(x) =>
            /\ \A a \in DOMAIN origin :
                  ~(/\ origin[a] = "future_shows"
                    /\ SeriesOfDir(all_series, a.dir, config.umtk_root_tv) = Some(x))
            /\ \A e \in evicted :
                  (/\ IsShowArtifact(Bare(e))
                   /\ ~e.trending
                   /\ SeriesOfDir(all_series, e.dir, config.umtk_root_tv) = Some(x))
                     => e.reason = "S01E01 now available"

\* An artifact created for a FutureShow is evicted as now available in a
\* later pass, the S01E01 aired and downloaded.
C6_Witness ==
    /\ settled
    /\ \E x \in SeriesSet :
          /\ FirstDownloaded(x)
          /\ Get(FirstEpisode(x.episodes)).airDateUtc # Absent
          /\ Get(Get(FirstEpisode(x.episodes)).airDateUtc) < now
          /\ \E e \in evicted :
                /\ e.list = "future_shows"
                /\ e.reason = "S01E01 now available"
                /\ SeriesOfDir(all_series, e.dir, config.umtk_root_tv) = Some(x)

(***************************************************************************)
(* Properties of a run while requests fail and folders cannot be written   *)
(***************************************************************************)
\* The show lists of the latest run are all empty.
NoShowLists ==
    \A f \in {"future_shows", "aired_shows", "new_shows", "trending_tv_monitored",
              "trending_tv_request_needed"} : lists[f] = <<>>

\* The movie pass of the latest run ran to its end: the movie lists are those
\* of the finders, every FutureMovie and ReleasedMovie member has its folder,
\* and the cleanup has left no folder it removes other than one it may not
\* write.
MoviePassComplete ==
    /\ \A f \in DOMAIN MovieLists(config, all_movies, mdblist_movies_items) :
          lists[f] = MovieLists(config, all_movies, mdblist_movies_items)[f]
    /\ \A m \in Members(lists.future_movies \o lists.released_movies) :
          MovieArtifactOf(m, EditionComingSoon) \subseteq MovieArtifacts(movie_disk)
    /\ config.cleanup =>
          \A r \in MovieRemovals(movie_disk, all_movies, lists.future_movies,
                                 lists.released_movies,
                                 lists.trending_movies_monitored,
                                 lists.trending_movies_request_needed,
                                 config.exclude_radarr_tag_ids,
                                 config.umtk_root_movies) :
             MoviePermissionDenied(r.folder, unwritable)

\* C11: when the TV tracker fails during the show pass (its probe, the
\* catalog request or an episode request), the show pass is given up, that
\* is, tv_processing_failed is set and nothing of the show pass follows: no
\* show artifact is evicted, with the probe or the catalog failing no show
\* list is filled, and with either or an episode request of the finders
\* failing no show artifact is created; the movie pass of the same run still
\* classifies, creates and cleans up.
C11_MoviePassSurvivesTvOutage ==
    (phase = "run" /\ settled /\ process_movies(config)
       /\ sonarr_failures # NoFailures) =>
        /\ MoviePassComplete
        /\ tv_processing_failed => \A e \in evicted : ~IsShowArtifact(e)
        /\ (process_tv(config) /\ sonarr_failures.from \in {"health", "series"}) =>
              /\ tv_processing_failed
              /\ NoShowLists
              /\ \A a \in created : ~IsShowArtifact(a)
        /\ (/\ config.tv > 0
            /\ \E i \in 1..Len(all_series) :
                  /\ all_series[i].monitored
                  /\ \/ sonarr_failures.from \in {"upcoming", "new"}
                     \/ all_series[i].id \in sonarr_failures.episodes) =>
              /\ tv_processing_failed
              /\ \A a \in created : ~IsShowArtifact(a)

\* C11 happens: a run whose show pass was given up has created a movie
\* folder, and another has evicted one.
C11_Witness ==
    /\ settled
    /\ tv_processing_failed
    /\ \E e \in evicted : ~IsShowArtifact(e)

\* find_upcoming_shows asks for the episodes of a series and the request
\* fails, the tracker being up until then.
LookupFails ==
    \E i \in 1..Len(all_series) :
        /\ all_series[i].monitored
        /\ ~HasExcludedTag(all_series[i], config.exclude_sonarr_tag_ids)
        /\ \/ all_series[i].id \in sonarr_failures.episodes
           \/ config.tv > 0 /\ sonarr_failures.from = "upcoming"

\* C12: when the episode request of a series fails while find_upcoming_shows
\* builds FutureShow and AiredShow, in main() or in the cleanup that calls it
\* again, the run has no FutureShow or AiredShow list, not even of the series
\* asked before that one, and evicts no show artifact; in main() the whole
\* show pass is given up.
C12_FailedLookupAbortsShows ==
    (phase = "run" /\ settled /\ process_tv(config) /\ LookupFails) =>
        /\ lists.future_shows = <<>>
        /\ lists.aired_shows = <<>>
        /\ \A e \in evicted : ~IsShowArtifact(e)
        /\ config.tv > 0 => tv_processing_failed

\* C12 happens: the request fails for the second series only, the first
\* one is monitored too and has its artifact from an earlier run, both are
\* missing from the lists and the artifact is still there.
C12_Witness ==
    /\ settled
    /\ config.tv > 0
    /\ sonarr_failures = [from |-> "never", episodes |-> {2}, tags |-> FALSE, mdblist |-> FALSE]
    /\ \A i \in 1..Len(all_series) : all_series[i].monitored
    /\ lists.future_shows = <<>>
    /\ \E a \in ShowArtifacts(tv_disk) :
          a \in ShowArtifactOf(all_series[1])

\* One of the four window lengths of the configuration is negative.
NegativeWindow(cfg) ==
    \/ cfg.future_days_upcoming_shows < 0
    \/ cfg.future_days_upcoming_movies < 0
    \/ cfg.past_days_upcoming_movies < 0
    \/ cfg.recent_days_new_show < 0

\* C13 as stated: with a negative window length the run ends in a
\* configuration error before anything is classified, created or evicted:
\* no run completes, no list is filled, no artifact is created or removed.
C13_NegativeWindowIsFatal ==
    (phase = "run" /\ NegativeWindow(config)) =>
        /\ ~settled
        /\ lists = EmptyLists
        /\ created = {}
        /\ evicted = {}

(***************************************************************************)
(* Properties of the evictions and their reasons                           *)
(***************************************************************************)
\* The artifact is one the cleanup of its kind looks at.
Scanned(a) ==
    IF IsShowArtifact(a)
    THEN a.dir \in TvDirsToScan(tv_disk, all_series, config.umtk_root_tv)
    ELSE a.dir \in MovieDirsToScan(all_movies, config.umtk_root_movies)

\* No series or movie of the tracker has the artifact's folder.
Unresolved(a, marked) ==
    IF IsShowArtifact(a)
    THEN SeriesOfDir(all_series, a.dir, config.umtk_root_tv) = Absent
    ELSE \A m \in MovieSet :
            MovieFolderOf(m, config.umtk_root_movies,
                          IF marked THEN EditionTrending ELSE EditionComingSoon)
               # Some(Join(a.dir, a.name))

SourceItemDeleted == {"show no longer exists in Sonarr", "movie no longer exists in Radarr"}

EnumeratedReason(reason) ==
    IF reason \in {"S01E01 now available", "movie has been downloaded"}
    THEN "now-available"
    ELSE IF reason \in {"show is no longer monitored", "movie is no longer monitored"}
    THEN "no-longer-monitored"
    ELSE IF reason = "S01E01 is no longer monitored" THEN "episode-unmonitored"
    ELSE IF reason \in {"show has excluded tags", "movie has excluded tags"}
    THEN "excluded-tag"
    ELSE IF reason = "first episode is beyond the day range" THEN "outside-window"
    ELSE IF reason = "no longer in trending list" THEN "no-longer-trending"
    ELSE IF reason \in SourceItemDeleted THEN "source-item-deleted"
    ELSE IF reason = "no valid S01E01 or air date found" THEN "no-valid-air-date"
    ELSE ""

\* The two reasons the cleanups print beside those.
FurtherReasons ==
    {"aired show excluded due to future_only_tv=True", "movie no longer meets criteria"}

\* Every artifact is evicted once, with one reason.
OneReasonEach == \A e1, e2 \in evicted : Bare(e1) = Bare(e2) => e1 = e2

CannotWrite(folder) ==
    \/ folder \in unwritable
    \/ PathParent(folder) \in unwritable
    \/ Join(folder, SeasonFolder) \in unwritable

\* C16: in a pass with cleanup in which no request fails, a folder is
\* reported as not removable only when it cannot be written, such a folder
\* stays as it is, and every other artifact the cleanups remove is removed
\* in the same pass: what is left on disk for them to remove cannot be
\* written.
C16_PermissionFailureIsLocal ==
    (phase = "run" /\ settled /\ config.cleanup /\ sonarr_failures = NoFailures) =>
        /\ \A f \in permission_denied : CannotWrite(f)
        /\ \A f \in permission_denied :
              \/ f \in movie_disk
              \/ f \in DOMAIN tv_disk /\ tv_disk[f].files # {}
        /\ process_tv(config) =>
              \A r \in TvRemovals(tv_disk, all_series, config,
                                  lists.trending_tv_monitored,
                                  lists.trending_tv_request_needed) :
                 CannotWrite(r.dir)
        /\ process_movies(config) =>
              \A r \in MovieRemovals(movie_disk, all_movies, lists.future_movies,
                                     lists.released_movies,
                                     lists.trending_movies_monitored,
                                     lists.trending_movies_request_needed,
                                     config.exclude_radarr_tag_ids,
                                     config.umtk_root_movies) :
                 CannotWrite(r.folder)

\* C16 happens: one show cleanup has reported a show folder it could not
\* remove and has evicted the artifact of another show.
C16_Witness ==
    /\ settled
    /\ sonarr_failures = NoFailures
    /\ \E f \in permission_denied : f \in DOMAIN tv_disk
    /\ \E e \in evicted : IsShowArtifact(e) /\ e.dir \notin permission_denied

(***************************************************************************)
(* Properties of the trending join and of the release date                 *)
(***************************************************************************)
\* The tracker series and movies that carry one of the ids of a trending entry.
SeriesWithIdOf(item) ==
    {x \in SeriesSet :
        \/ Truthy(item.tvdb_id) /\ x.tvdbId = item.tvdb_id
        \/ Truthy(item.tmdb_id) /\ x.tmdbId = item.tmdb_id
        \/ Truthy(item.imdb_id) /\ x.imdbId = item.imdb_id}

MoviesWithIdOf(item) ==
    {x \in MovieSet :
        \/ Truthy(item.tmdb_id) /\ x.tmdbId = item.tmdb_id
        \/ Truthy(item.imdb_id) /\ x.imdbId = item.imdb_id}

\* The list has an entry for the trending entry: that of its rank.
EntryIn(list, item) == \E e \in Members(list) : e.rank = item.rank

AnyMonitoredEpisode(x) == \E i \in DOMAIN x.episodes : x.episodes[i].monitored

\* C17: a trending entry is in at most one of the two trending lists.  It is
\* in TrendingMonitored exactly when a tracker item carries one of its ids,
\* is monitored, has (a series) a monitored episode, and has nothing
\* downloaded; it is in TrendingRequestNeeded exactly when no tracker item
\* carries one of its ids, or one does, has nothing downloaded and is
\* unmonitored or (a series) without monitored episode.
C17_TrendingCategories ==
    phase = "build_done" =>
        /\ config.trending_tv > 0 =>
              \A item \in Members(mdblist_tv_items) :
                 /\ ~(/\ EntryIn(lists.trending_tv_monitored, item)
                      /\ EntryIn(lists.trending_tv_request_needed, item))
                 /\ EntryIn(lists.trending_tv_monitored, item) <=>
                       \E x \in SeriesWithIdOf(item) :
                          /\ x.monitored
                          /\ AnyMonitoredEpisode(x)
                          /\ ~AnyDownloaded(x)
                 /\ EntryIn(lists.trending_tv_request_needed, item) <=>
                       \/ SeriesWithIdOf(item) = {}
                       \/ \E x \in SeriesWithIdOf(item) :
                             /\ ~AnyDownloaded(x)
                             /\ ~x.monitored \/ ~AnyMonitoredEpisode(x)
        /\ config.trending_movies > 0 =>
              \A item \in Members(mdblist_movies_items) :
                 /\ ~(/\ EntryIn(lists.trending_movies_monitored, item)
                      /\ EntryIn(lists.trending_movies_request_needed, item))
                 /\ EntryIn(lists.trending_movies_monitored, item) <=>
                       \E x \in MoviesWithIdOf(item) : x.monitored /\ ~x.hasFile
                 /\ EntryIn(lists.trending_movies_request_needed, item) <=>
                       \/ MoviesWithIdOf(item) = {}
                       \/ \E x \in MoviesWithIdOf(item) : ~x.monitored /\ ~x.hasFile
        /\ Len(lists.trending_tv_monitored) + Len(lists.trending_tv_request_needed)
              <= Len(mdblist_tv_items)
        /\ Len(lists.trending_movies_monitored)
              + Len(lists.trending_movies_request_needed)
              <= Len(mdblist_movies_items)

\* C17 happens: a trending entry joins a monitored series that has episodes,
\* none of them monitored or downloaded, and is in TrendingRequestNeeded.
C17_Witness ==
    /\ phase = "build_done"
    /\ \E item \in Members(mdblist_tv_items) : \E x \in SeriesWithIdOf(item) :
          /\ x.monitored
          /\ x.episodes # <<>>
          /\ ~AnyMonitoredEpisode(x)
          /\ ~AnyDownloaded(x)
          /\ EntryIn(lists.trending_tv_request_needed, item)
          /\ ~EntryIn(lists.trending_tv_monitored, item)

\* C18 as stated: a trending entry none of whose ids a tracker item carries,
\* but whose title has the key of a tracker item's title, is resolved to that
\* item: its list entry, if it has one, carries the tracker item's primary
\* id, and it has none when the tracker item has downloaded content.
C18_TitleFallback ==
    phase = "build_done" =>
        /\ config.trending_tv > 0 =>
              \A item \in Members(mdblist_tv_items) : \A x \in SeriesSet :
                 (/\ SeriesWithIdOf(item) = {}
                  /\ normalize_title(item.title) = normalize_title(x.title)) =>
                     \A l \in TrendingShowLists : \A e \in Members(lists[l]) :
                        e.rank = item.rank =>
                           e.tvdbId = x.tvdbId /\ ~AnyDownloaded(x)
        /\ config.trending_movies > 0 =>
              \A item \in Members(mdblist_movies_items) : \A x \in MovieSet :
                 (/\ MoviesWithIdOf(item) = {}
                  /\ normalize_title(item.title) = normalize_title(x.title)) =>
                     \A l \in TrendingMovieLists : \A e \in Members(lists[l]) :
                        e.rank = item.rank => e.tmdbId = x.tmdbId /\ ~x.hasFile

\* The tracker movies whose Coming Soon folder the artifact is.
MoviesOfComingSoon(a) ==
    {m \in MovieSet :
        MovieFolderOf(m, config.umtk_root_movies, EditionComingSoon)
           = Some(Join(a.dir, a.name))}

\* The movie is to keep its Coming Soon folder: it is a FutureMovie or
\* ReleasedMovie, or its title is that of a TrendingMonitored member, exactly
\* or by key.
KeepsComingSoon(m) ==
    \/ MovieIn(lists.future_movies, m)
    \/ MovieIn(lists.released_movies, m)
    \/ \E t \in Members(lists.trending_movies_monitored) :
          t.title = m.title \/ normalize_title(t.title) = normalize_title(m.title)

PresentReleases(m, with_cinema) ==
    {Get(d) : d \in ({m.digitalRelease, m.physicalRelease} \cup
                      (IF with_cinema THEN {m.inCinemas} ELSE {})) \ {Absent}}

\* The release time the movie is to be classified by, if any: the earliest
\* present one when cinema releases count, else the digital one, else the
\* physical one.
UsableRelease(m) ==
    IF config.include_inCinemas
    THEN {d \in PresentReleases(m, TRUE) :
             \A e \in PresentReleases(m, TRUE) : d <= e}
    ELSE IF m.digitalRelease # Absent THEN {Get(m.digitalRelease)}
         ELSE PresentReleases(m, FALSE)

\* C20: the regular movie categories are decided by, and their entries
\* carry the day of, the earliest present digital, physical or cinema date
\* when include_inCinemas is set, and the digital date, else the physical
\* date, when it is not (the cinema date is then never the one used); a
\* movie with no such date is in no regular category, and a monitored
\* movie without file and excluded tag whose date lies in the future window
\* is a FutureMovie.
C20_ReleaseDateChosen ==
    (phase = "build_done" /\ config.movies > 0) =>
        \A m \in MovieSet :
           /\ UsableRelease(m) = {} =>
                 \A l \in RegularMovieLists : ~MovieIn(lists[l], m)
           /\ \A l \in RegularMovieLists : \A e \in Members(lists[l]) :
                 e.tmdbId = m.tmdbId =>
                    \E d \in UsableRelease(m) :
                       /\ e.releaseDate = Some(DateOf(d + config.utc_offset))
                       /\ l = "future_movies" =>
                             /\ d >= now
                             /\ d + config.utc_offset
                                   <= now + HoursPerDay * config.future_days_upcoming_movies
                       /\ l = "released_movies" => d < now
                       /\ ~config.include_inCinemas => e.releaseType # "Cinema"
           /\ \A d \in UsableRelease(m) :
                 (/\ m.monitored
                  /\ ~m.hasFile
                  /\ ~HasExcludedTag(m, config.exclude_radarr_tag_ids)
                  /\ d >= now
                  /\ d + config.utc_offset
                        <= now + HoursPerDay * config.future_days_upcoming_movies) =>
                     MovieIn(lists.future_movies, m)

\* C20 happens: with include_inCinemas set, a movie with all three dates,
\* the cinema one the earliest, is classified by its cinema date.
C20_Witness ==
    /\ phase = "build_done"
    /\ config.include_inCinemas
    /\ \E m \in MovieSet : \E l \in RegularMovieLists : \E e \in Members(lists[l]) :
          /\ e.tmdbId = m.tmdbId
          /\ m.digitalRelease # Absent /\ m.physicalRelease # Absent
          /\ m.inCinemas # Absent
          /\ Get(m.inCinemas) < Get(m.physicalRelease)
          /\ Get(m.inCinemas) < Get(m.digitalRelease)
          /\ e.releaseType = "Cinema"

(***************************************************************************)
(* Properties of the skip rules and of future_only                         *)
(***************************************************************************)
\* Every configured exclude-tag name is the label of a tag of the tracker,
\* letter case and surrounding blanks set aside.
NamesDenoteTags(names, all_tags) ==
    \A n \in Members(names) : \E t \in Members(all_tags) :
        LowerText(t.label) = LowerText(Strip(n))

\* The ids of the tags the configured names denote.
DenotedTagIds(names, all_tags) ==
    {t.id : t \in {u \in Members(all_tags) :
                      \E n \in Members(names) :
                          LowerText(u.label) = LowerText(Strip(n))}}

\* The series has an S01E01 that is monitored, not downloaded and dated.
HasOpenFirstEpisode(x) ==
    \E i \in DOMAIN x.episodes :
        /\ x.episodes[i].seasonNumber = 1 /\ x.episodes[i].episodeNumber = 1
        /\ x.episodes[i].monitored
        /\ ~x.episodes[i].hasFile
        /\ x.episodes[i].airDateUtc # Absent

\* C21 as stated: when the configured exclude-tag names denote tags of the
\* tracker, each FutureShow and AiredShow member of a run is a monitored
\* series that carries none of the denoted tags and whose S01E01 exists, is
\* monitored, has no file and has an air date, and each FutureMovie and
\* ReleasedMovie member is a monitored movie without file and excluded tag.
C21_SkipRulesHold ==
    (phase = "run" /\ settled
       /\ NamesDenoteTags(config.exclude_sonarr_tags, SonarrTags)) =>
        /\ \A l \in {"future_shows", "aired_shows"} : \A e \in Members(lists[l]) :
              \E x \in SeriesSet :
                 /\ x.tvdbId = e.tvdbId
                 /\ x.monitored
                 /\ x.tags \cap DenotedTagIds(config.exclude_sonarr_tags,
                                               SonarrTags) = {}
                 /\ HasOpenFirstEpisode(x)
        /\ \A l \in RegularMovieLists : \A e \in Members(lists[l]) :
              \E m \in MovieSet :
                 /\ m.tmdbId = e.tmdbId
                 /\ m.monitored
                 /\ ~m.hasFile
                 /\ ~HasExcludedTag(m, config.exclude_radarr_tag_ids)

\* The S01E01 of the series has an air date, and it has passed.
FirstAired(x) ==
    /\ FirstEpisode(x.episodes) # Absent
    /\ Get(FirstEpisode(x.episodes)).airDateUtc # Absent
    /\ Get(Get(FirstEpisode(x.episodes)).airDateUtc) < now

\* The artifacts on disk that were created for a FutureShow and whose
\* series' S01E01 has aired.
AiredFutureArtifacts ==
    {a \in DOMAIN origin :
        /\ origin[a] = "future_shows"
        /\ \E x \in SeriesSet :
              /\ SeriesOfDir(all_series, a.dir, config.umtk_root_tv) = Some(x)
              /\ FirstAired(x)}

\* C22: with future_only_tv no series is an AiredShow, and after a
\* pass with cleanup no artifact created for a FutureShow is left once the
\* air date of its S01E01 has passed; with future_only no movie is a
\* ReleasedMovie.
C22_FutureOnly ==
    (phase = "run" /\ settled) =>
        /\ config.future_only_tv => lists.aired_shows = <<>>
        /\ config.future_only => lists.released_movies = <<>>
        /\ (config.future_only_tv /\ config.cleanup /\ process_tv(config)) =>
              AiredFutureArtifacts = {}

\* C22 happens: with future_only_tv, the artifact created for a FutureShow
\* has been evicted because the show has aired, its S01E01 not downloaded.
C22_Witness ==
    /\ settled
    /\ config.future_only_tv
    /\ lists.aired_shows = <<>>
    /\ \E e \in evicted :
          /\ e.list = "future_shows"
          /\ e.reason = "aired show excluded due to future_only_tv=True"
          /\ \E x \in SeriesSet :
                /\ SeriesOfDir(all_series, e.dir, config.umtk_root_tv) = Some(x)
                /\ FirstAired(x)
                /\ ~FirstDownloaded(x)

(***************************************************************************)
(* Properties of the cleanups as functions of their inputs                 *)
(***************************************************************************)
\* The show folders cleanup_tv_content empties, and the edition folders
\* cleanup_movie_content removes, when the catalog and the trending lists
\* reach them in that order.
ShowFoldersEvicted(series_list, trending_monitored, trending_request_needed) ==
    {r.dir : r \in TvRemovals(tv_disk, series_list, config, trending_monitored,
                              trending_request_needed)}

MovieFoldersEvicted(movie_list, future_movies, released_movies, trending_monitored, trending_request_needed) ==
    {r.folder : r \in MovieRemovals(movie_disk, movie_list, future_movies,
                                    released_movies, trending_monitored,
                                    trending_request_needed,
                                    config.exclude_radarr_tag_ids,
                                    config.umtk_root_movies)}

\* C23 as stated: a cleanup evicts the artifacts it would evict with the
\* catalog and the desired lists in reverse order, also when two tracker
\* items share a folder name or a title and year.
C23_OrderIndependent ==
    [][(phase = "order_input" /\ phase' = "order_done") =>
          /\ process_tv(config) =>
                {e.dir : e \in evicted'}
                   = ShowFoldersEvicted(Reverse(all_series),
                                        Reverse(lists.trending_tv_monitored),
                                        Reverse(lists.trending_tv_request_needed))
          /\ process_movies(config) =>
                {Join(e.dir, e.name) : e \in evicted'}
                   = MovieFoldersEvicted(Reverse(all_movies),
                                         Reverse(lists.future_movies),
                                         Reverse(lists.released_movies),
                                         Reverse(lists.trending_movies_monitored),
                                         Reverse(lists.trending_movies_request_needed))]_vars


(***************************************************************************)
(* Properties of the counters of cleanup_tv_content                        *)
(***************************************************************************)

\* The show folders the latest pass removed content from.
EvictedDirs == {e.dir : e \in evicted}

\* The files in the show folders of the artifact store.
FilesOnDisk == SumOf([d \in DOMAIN tv_disk |-> Cardinality(tv_disk[d].files)])

\* C24: under a root override, a show folder that the pass has condemned
\* and removed is evicted once and counted once: the folder is gone, the
\* pass has counted one removal and one checked file for it however many
\* files it held, and every other checked file is a file still on disk.
C24_ContainerCountedOnce ==
    (phase = "order_done" /\ process_tv(config) /\ config.umtk_root_tv # Absent)
        => /\ EvictedDirs \cap DOMAIN tv_disk = {}
           /\ removed_count = Cardinality(EvictedDirs)
           /\ checked_count = Cardinality(EvictedDirs) + FilesOnDisk

\* A pass under a root override has removed a show folder that held two
\* files.
C24_Witness ==
    /\ phase = "order_done"
    /\ process_tv(config)
    /\ config.umtk_root_tv # Absent
    /\ \E d \in EvictedDirs : Cardinality({e \in evicted : e.dir = d}) = 2
    /\ removed_count = 1
    /\ checked_count = 1


(***************************************************************************)
(* Properties of the re-check of cleanup_tv_content                        *)
(***************************************************************************)

\* The show folders that hold content without a trending marker and that
\* the cleanup resolves to a series of the tracker.
ResolvedRegularDirs ==
    {d \in DOMAIN tv_disk :
        /\ tv_disk[d].files # {}
        /\ ~tv_disk[d].trending
        /\ SeriesOfDir(all_series, d, config.umtk_root_tv) # Absent}

\* Whether find_upcoming_shows puts the series in neither of its lists.
NotListed(series) ==
    UpcomingShowClass(series, FirstEpisode(get_sonarr_episodes(series)),
                      config.future_days_upcoming_shows, config.utc_offset,
                      config.exclude_sonarr_tag_ids, config.future_only_tv) = "skip"

\* C25: the re-check of the cleanup agrees with find_upcoming_shows: after
\* a pass no show folder keeps regular content that resolves to a series
\* the finder does not list.
C25_RecheckAgrees ==
    (phase = "order_done" /\ process_tv(config))
        => \A d \in ResolvedRegularDirs :
              ~NotListed(Get(SeriesOfDir(all_series, d, config.umtk_root_tv)))


(***************************************************************************)
(* Properties of the store at the end of a pass                            *)
(***************************************************************************)

\* The shows of the regular lists of the latest run that have a tracker
\* path.
DesiredShowsWithPath ==
    {x \in {(lists.future_shows \o lists.aired_shows)[i] :
              i \in 1..Len(lists.future_shows \o lists.aired_shows)} :
        x.path # Absent}

\* Whether the "Season 00" of the show holds a trailer or a placeholder.
HasContent(show) ==
    Season00(tv_disk, Get(ShowDirOf(show, config.umtk_root_tv))).files # {}

\* C26: after a complete pass with cleanup, every show of the regular
\* lists that has a tracker path has a trailer or a placeholder in its
\* "Season 00"; the pass has not removed it for a .trending marker on the
\* folder of a show the trending lists do not name.
C26_DesiredShowHasContent ==
    (settled /\ config.cleanup /\ process_tv(config))
        => \A x \in DesiredShowsWithPath : HasContent(x)


\* The movies, by parent folder and by folder name without the edition
\* tag, that have a folder of the edition on disk.
MoviesWithEdition(edition) ==
    {<<PathParent(f), RemoveEdition(PathName(f), edition)>> :
        f \in {g \in movie_disk : FolderEdition(PathName(g)) = edition}}

\* C27: at the end of every pass with cleanup, no movie has both a Coming
\* Soon edition folder and a Trending edition folder on disk.
C27_OneEditionPerMovie ==
    (settled /\ config.cleanup /\ process_movies(config))
        => MoviesWithEdition(EditionComingSoon)
              \cap MoviesWithEdition(EditionTrending) = {}


\* C28: in a run whose requests to the trending source fail, no content
\* with a trending marker is evicted.
C28_FailedFetchEvictsNothing ==
    (settled /\ sonarr_failures.mdblist) => \A e \in evicted : ~e.trending


(***************************************************************************)
(* Properties of a run without cleanup                                     *)
(***************************************************************************)

\* Whether everything in the first store is in the second: every file of
\* every "Season 00", every .trending marker and every edition folder.
StoreKept(tv_before, movies_before, tv_after, movies_after) ==
    /\ \A d \in DOMAIN tv_before :
          /\ tv_before[d].files \subseteq Season00(tv_after, d).files
          /\ tv_before[d].trending => Season00(tv_after, d).trending
    /\ movies_before \subseteq movies_after

\* The show folders and edition folders the cleanups of a run on the
\* present store would remove content from.
WouldBeRemoved ==
    {r.dir : r \in TvRemovals(tv_disk, all_series, config,
                              lists.trending_tv_monitored,
                              lists.trending_tv_request_needed)}
    \cup {r.folder : r \in MovieRemovals(movie_disk, all_movies, lists.future_movies,
                                         lists.released_movies,
                                         lists.trending_movies_monitored,
                                         lists.trending_movies_request_needed,
                                         config.exclude_radarr_tag_ids,
                                         config.umtk_root_movies)}

\* C29: with the cleanup option disabled a run removes no artifact: every
\* file, marker and edition folder present before the run is present after
\* it.
C29_NoCleanupNoRemoval ==
    [][(~config.cleanup /\ settled')
          => StoreKept(tv_disk, movie_disk, tv_disk', movie_disk')]_vars

\* A run without cleanup has ended with content on disk that a cleanup
\* would remove.
C29_Witness ==
    /\ phase = "run"
    /\ settled
    /\ ~config.cleanup
    /\ WouldBeRemoved # {}


(***************************************************************************)
(* Properties of the cleanups of a kind whose regular method is disabled   *)
(***************************************************************************)

\* The show folders the show cleanup looks at that hold content without a
\* trending marker.
RegularShowDirs ==
    {d \in TvDirsToScan(tv_disk, all_series, config.umtk_root_tv) :
        tv_disk[d].files # {} /\ ~tv_disk[d].trending}

\* The Coming Soon folders the movie cleanup looks at whose movie is not
\* among the monitored trending movies.
RegularMovieFolders ==
    {f \in MovieFoldersToScan(movie_disk, all_movies, config.umtk_root_movies) :
        /\ FolderEdition(PathName(f)) = EditionComingSoon
        /\ \A x \in {MovieOfFolder(all_movies, f, config.umtk_root_movies)} :
              x # Absent
                 => ~FoundInTrending(Get(x).title, lists.trending_movies_monitored)}

\* C30: with the regular method of a kind disabled and its trending method
\* enabled, the cleanup of the kind leaves no regular content without
\* trending mark, for shows as for movies, whether or not the title is
\* inside the upcoming window.
C30_DisabledMethodEvictsRegular ==
    /\ (phase = "order_done" /\ config.tv = Disabled /\ config.trending_tv > 0)
          => RegularShowDirs = {}
    /\ (phase = "order_done" /\ config.movies = Disabled
           /\ config.trending_movies > 0)
          => RegularMovieFolders = {}

====
